---- MODULE Spec2Model ----
(***************************************************************************)
(* Model of the jester reverse proxy (crates/jester-core): the route       *)
(* matching engine (router.rs), upstream request rewriting and the         *)
(* listener / connection / request pipeline with cooperative shutdown      *)
(* (proxy.rs).                                                             *)
(*                                                                         *)
(* Strings whose characters matter (hosts, host patterns, path prefixes)   *)
(* are sequences of one-character strings.  Option<T> is a record with a   *)
(* boolean field `some`.                                                   *)
(***************************************************************************)
EXTENDS Integers, Sequences, FiniteSets, TLC

VARIABLES
    \* host-matching specification: one pattern, one host
    hPc, hPattern, hHost, hMatcher, hResult,
    \* router specification: route descriptors, a request, the host handed
    \* to select, the built router, the selection
    rPc, rConfig, rReq, rHostArg, rRouter, rSel,
    \* forwarding specification: the configured upstream target, its compiled
    \* URI, the client's request, the request as rewritten so far, the
    \* result of build_upstream_uri, the request the client put on the wire
    fPc, fTarget, fBase, fClientReq, fReq, fUri, fSent,
    \* proxy specification: where Proxy::run stands, the value of the
    \* shutdown watch channel, the listener tasks, the connections queued
    \* at each listening socket, the connection tasks, the requests put on
    \* the wire to upstreams, the requests_total counters
    pRun, pShutdown, pListeners, pBacklog, pConns, pUpstream, pMetrics,
    \* timeout specification: a route's filter list, the timeout compiled
    \* from it, the seconds the forward has been pending, how it ended
    tPc, tFilters, tTimeout, tWaited, tOutcome,
    \* bind-address specification: a listener's bind value, what
    \* parse_bind_addr made of it
    bPc, bBind, bAddr,
    \* startup specification: the listeners of the configuration, what
    \* Proxy::new returned, the listeners whose socket is bound
    sPc, sListeners, sProxy, sBound,
    \* request specification: where handle_request stands, its request, the
    \* fields of its tracing span, what it returned
    qPc, qReq, qSpan, qResult

hostVars == <<hPc, hPattern, hHost, hMatcher, hResult>>

routerVars == <<rPc, rConfig, rReq, rHostArg, rRouter, rSel>>

forwardVars == <<fPc, fTarget, fBase, fClientReq, fReq, fUri, fSent>>

proxyVars == <<pRun, pShutdown, pListeners, pBacklog, pConns, pUpstream, pMetrics>>

timeoutVars == <<tPc, tFilters, tTimeout, tWaited, tOutcome>>

bindVars == <<bPc, bBind, bAddr>>

startupVars == <<sPc, sListeners, sProxy, sBound>>

requestVars == <<qPc, qReq, qSpan, qResult>>

vars == <<hostVars, routerVars, forwardVars, proxyVars, timeoutVars, bindVars,
          startupVars, requestVars>>

\* what each specification leaves alone
hostRest ==
    <<routerVars, forwardVars, proxyVars, timeoutVars, bindVars, startupVars, requestVars>>

routerRest ==
    <<hostVars, forwardVars, proxyVars, timeoutVars, bindVars, startupVars, requestVars>>

forwardRest ==
    <<hostVars, routerVars, proxyVars, timeoutVars, bindVars, startupVars, requestVars>>

proxyRest ==
    <<hostVars, routerVars, forwardVars, timeoutVars, bindVars, startupVars, requestVars>>

timeoutRest ==
    <<hostVars, routerVars, forwardVars, proxyVars, bindVars, startupVars, requestVars>>

bindRest ==
    <<hostVars, routerVars, forwardVars, proxyVars, timeoutVars, startupVars, requestVars>>

startupRest ==
    <<hostVars, routerVars, forwardVars, proxyVars, timeoutVars, bindVars, requestVars>>

requestRest ==
    <<hostVars, routerVars, forwardVars, proxyVars, timeoutVars, bindVars, startupVars>>

----------------------------------------------------------------------------
(* Option<T> *)

None == [some |-> FALSE]

Some(v) == [some |-> TRUE, val |-> v]

\* F applied to the value of v (v is evaluated once)
With(v, F(_)) == CHOOSE r \in {F(x) : x \in {v}} : TRUE

----------------------------------------------------------------------------
(* Each specification below exercises one part of the program; the         *)
(* variables of the other parts rest in these idle values.                 *)

HostIdle ==
    /\ hPc = "idle"
    /\ hPattern = <<>>
    /\ hHost = <<>>
    /\ hMatcher = None
    /\ hResult = None

RouterIdle ==
    /\ rPc = "idle"
    /\ rConfig = <<>>
    /\ rReq = None
    /\ rHostArg = <<>>
    /\ rRouter = None
    /\ rSel = None

ForwardIdle ==
    /\ fPc = "idle"
    /\ fTarget = <<>>
    /\ fBase = None
    /\ fClientReq = None
    /\ fReq = None
    /\ fUri = None
    /\ fSent = None

ProxyIdle ==
    /\ pRun = "idle"
    /\ pShutdown = FALSE
    /\ pListeners = <<>>
    /\ pBacklog = <<>>
    /\ pConns = <<>>
    /\ pUpstream = {}
    /\ pMetrics = [hit |-> 0, miss |-> 0, error |-> 0]

TimeoutIdle ==
    /\ tPc = "idle"
    /\ tFilters = <<>>
    /\ tTimeout = None
    /\ tWaited = 0
    /\ tOutcome = "none"

BindIdle ==
    /\ bPc = "idle"
    /\ bBind = <<>>
    /\ bAddr = None

StartupIdle ==
    /\ sPc = "idle"
    /\ sListeners = <<>>
    /\ sProxy = None
    /\ sBound = {}

RequestIdle ==
    /\ qPc = "idle"
    /\ qReq = None
    /\ qSpan = None
    /\ qResult = None

----------------------------------------------------------------------------
(* Bounds of the input domains *)

\* longest generated host / suffix string
MaxLen == 3

\* characters of generated strings: a letter in both cases, a second letter,
\* the label separator
Alphabet == {"a", "A", "b", "."}

----------------------------------------------------------------------------
(* str primitives used by router.rs *)

UpperChars == <<"A","B","C","D","E","F","G","H","I","J","K","L","M",
                "N","O","P","Q","R","S","T","U","V","W","X","Y","Z">>

LowerChars == <<"a","b","c","d","e","f","g","h","i","j","k","l","m",
                "n","o","p","q","r","s","t","u","v","w","x","y","z">>

\* u8::to_ascii_lowercase
char_to_ascii_lowercase(c) ==
    IF \E i \in 1..26 : UpperChars[i] = c
    THEN LowerChars[CHOOSE i \in 1..26 : UpperChars[i] = c]
    ELSE c

\* str::to_ascii_lowercase
to_ascii_lowercase(s) == [i \in 1..Len(s) |-> char_to_ascii_lowercase(s[i])]

\* str::eq_ignore_ascii_case
eq_ignore_ascii_case(a, b) ==
    /\ Len(a) = Len(b)
    /\ \A i \in 1..Len(a) :
          char_to_ascii_lowercase(a[i]) = char_to_ascii_lowercase(b[i])

\* str::starts_with
starts_with(s, prefix) ==
    /\ Len(prefix) <= Len(s)
    /\ SubSeq(s, 1, Len(prefix)) = prefix

\* str::ends_with
ends_with(s, suffix) ==
    /\ Len(suffix) <= Len(s)
    /\ SubSeq(s, Len(s) - Len(suffix) + 1, Len(s)) = suffix

\* str::strip_prefix
strip_prefix(s, prefix) ==
    IF starts_with(s, prefix)
    THEN Some(SubSeq(s, Len(prefix) + 1, Len(s)))
    ELSE None

----------------------------------------------------------------------------
(* <IpAddr as FromStr>::from_str, for the strings the input domain can     *)
(* spell: the alphabet has no ':' so only dotted-quad IPv4 literals occur. *)

Digits == <<"0","1","2","3","4","5","6","7","8","9">>

IsDigit(c) == \E i \in 1..10 : Digits[i] = c

DigitVal(c) == (CHOOSE i \in 1..10 : Digits[i] = c) - 1

\* positions of the '.' separators of s
DotPositions(s) == {i \in 1..Len(s) : s[i] = "."}

\* one octet: 1..3 decimal digits, no leading zero, value at most 255
ParseOctet(t) ==
    IF /\ Len(t) \in 1..3
       /\ \A i \in 1..Len(t) : IsDigit(t[i])
       /\ (Len(t) > 1 => t[1] # "0")
    THEN LET v == IF Len(t) = 1 THEN DigitVal(t[1])
                  ELSE IF Len(t) = 2 THEN 10 * DigitVal(t[1]) + DigitVal(t[2])
                  ELSE 100 * DigitVal(t[1]) + 10 * DigitVal(t[2]) + DigitVal(t[3])
         IN  IF v <= 255 THEN Some(v) ELSE None
    ELSE None

\* Ok(addr) as Some(<<o1,o2,o3,o4>>), Err as None
ParseIpAddr(s) ==
    With(DotPositions(s), LAMBDA dots :
        IF Cardinality(dots) # 3 THEN None
        ELSE
          LET d1 == CHOOSE i \in dots : \A j \in dots : i <= j
              d3 == CHOOSE i \in dots : \A j \in dots : i >= j
              d2 == CHOOSE i \in dots : i # d1 /\ i # d3
              o1 == ParseOctet(SubSeq(s, 1, d1 - 1))
              o2 == ParseOctet(SubSeq(s, d1 + 1, d2 - 1))
              o3 == ParseOctet(SubSeq(s, d2 + 1, d3 - 1))
              o4 == ParseOctet(SubSeq(s, d3 + 1, Len(s)))
          IN  IF o1.some /\ o2.some /\ o3.some /\ o4.some
              THEN Some(<<o1.val, o2.val, o3.val, o4.val>>)
              ELSE None)

----------------------------------------------------------------------------
(* <SocketAddr as FromStr>::from_str, for the strings the input domain can *)
(* spell: an IPv4 literal, ':' and a port (no bracketed IPv6 literal).     *)

\* u16::MAX
U16_MAX == 65535

\* the decimal digits of t read into a u16 from acc on: None on a
\* character that is no digit and on overflow
RECURSIVE read_u16(_, _)
read_u16(t, acc) ==
    IF t = <<>> THEN Some(acc)
    ELSE IF ~IsDigit(Head(t)) THEN None
    ELSE IF acc * 10 + DigitVal(Head(t)) > U16_MAX THEN None
    ELSE read_u16(Tail(t), acc * 10 + DigitVal(Head(t)))

\* the port: one or more decimal digits, leading zeros allowed
ParsePort(t) == IF t = <<>> THEN None ELSE read_u16(t, 0)

\* Ok(addr) as Some([ip, port]), Err as None
SocketAddr_from_str(s) ==
    IF ~\E i \in 1..Len(s) : s[i] = ":" THEN None
    ELSE With(CHOOSE i \in 1..Len(s) : s[i] = ":" /\ \A j \in 1..(i - 1) : s[j] # ":",
              LAMBDA colon :
                  IF /\ ParseIpAddr(SubSeq(s, 1, colon - 1)).some
                     /\ ParsePort(SubSeq(s, colon + 1, Len(s))).some
                  THEN Some([ip   |-> ParseIpAddr(SubSeq(s, 1, colon - 1)).val,
                             port |-> ParsePort(SubSeq(s, colon + 1, Len(s))).val])
                  ELSE None)

----------------------------------------------------------------------------
(* router.rs: HostMatcher *)

\* HostMatcher::new (never fails)
HostMatcher_new(pattern) ==
    IF pattern = <<"*">> THEN [kind |-> "Any"]
    ELSE IF ParseIpAddr(pattern).some
         THEN [kind |-> "Ip", ip |-> ParseIpAddr(pattern).val]
    ELSE IF strip_prefix(pattern, <<"*", ".">>).some
         THEN [kind |-> "Wildcard",
               suffix |-> strip_prefix(pattern, <<"*", ".">>).val]
    ELSE [kind |-> "Exact", value |-> pattern]

\* an exact matcher that compares without folding case
HostMatcher_matches_ExactCaseSensitive(m, host) ==
    CASE m.kind = "Any"      -> TRUE
      [] m.kind = "Exact"    -> host = m.value
      [] m.kind = "Wildcard" -> ends_with(to_ascii_lowercase(host),
                                          to_ascii_lowercase(m.suffix))
      [] m.kind = "Ip"       -> /\ ParseIpAddr(host).some
                                /\ ParseIpAddr(host).val = m.ip

\* a wildcard matcher that compares the suffix without folding case
HostMatcher_matches_CaseSensitive(m, host) ==
    CASE m.kind = "Any"      -> TRUE
      [] m.kind = "Exact"    -> eq_ignore_ascii_case(host, m.value)
      [] m.kind = "Wildcard" -> ends_with(host, m.suffix)
      [] m.kind = "Ip"       -> /\ ParseIpAddr(host).some
                                /\ ParseIpAddr(host).val = m.ip

\* HostMatcher::matches
HostMatcher_matches(m, host) ==
    CASE m.kind = "Any"      -> TRUE
      [] m.kind = "Exact"    -> eq_ignore_ascii_case(host, m.value)
      [] m.kind = "Wildcard" -> ends_with(to_ascii_lowercase(host),
                                          to_ascii_lowercase(m.suffix))
      [] m.kind = "Ip"       -> /\ ParseIpAddr(host).some
                                /\ ParseIpAddr(host).val = m.ip

----------------------------------------------------------------------------
(* Character classes and string helpers of the http crate's parsers, for   *)
(* the characters the input domains use.                                   *)

\* a byte outside visible ASCII (what HeaderValue::to_str and the URI and
\* token parsers reject)
OpaqueByte == "0xFF"

Letters == {UpperChars[i] : i \in 1..26} \cup {LowerChars[i] : i \in 1..26}

DigitChars == {Digits[i] : i \in 1..10}

\* RFC 7230 tchar: the characters of a method or header-name token (the
\* apostrophe and the backquote, also tchars, are not spelled by the inputs)
TokenChars ==
    Letters \cup DigitChars
    \cup {"!", "#", "$", "%", "&", "*", "+", "-", ".", "^", "_", "|", "~"}

\* characters a URI scheme may contain
SchemeChars == Letters \cup DigitChars \cup {"+", "-", "."}

\* characters accepted inside an authority (no userinfo, no IPv6 brackets
\* and no percent-escapes are spelled by the input domain)
AuthorityChars == Letters \cup DigitChars \cup {"-", ".", "_", "~", ":"}

\* characters accepted inside a path or query
PathChars ==
    Letters \cup DigitChars
    \cup {"/", "?", "=", "&", "-", ".", "_", "~", "*", "+", ":", "%", "!", "$"}

\* the characters of s as one TLA+ string (for readable targets and names)
RECURSIVE Join(_)
Join(s) == IF s = <<>> THEN "" ELSE s[1] \o Join(Tail(s))

\* index of the first element of s in set T, or Len(s)+1
FirstIn(s, T) ==
    CHOOSE i \in 1..(Len(s) + 1) :
        /\ i <= Len(s) => s[i] \in T
        /\ \A j \in 1..(i - 1) : s[j] \notin T

\* index of the first element of s not in set T, or Len(s)+1
FirstNotIn(s, T) ==
    CHOOSE i \in 1..(Len(s) + 1) :
        /\ i <= Len(s) => s[i] \notin T
        /\ \A j \in 1..(i - 1) : s[j] \in T

----------------------------------------------------------------------------
(* http::Uri.  A Uri is [scheme, authority, pq]: scheme and authority are  *)
(* Option<chars>, pq is Option<[path |-> chars, query |-> Option<chars>]>. *)

\* PathAndQuery::from_shared: split at the first '?', drop a fragment;
\* Err (None) on a character a path may not contain
PathAndQuery_from_shared(s) ==
    With(SubSeq(s, 1, FirstIn(s, {"#"}) - 1), LAMBDA body :
    With(FirstIn(body, {"?"}), LAMBDA q :
        IF \E i \in 1..Len(body) : body[i] \notin PathChars
        THEN None
        ELSE Some([path  |-> SubSeq(body, 1, q - 1),
                   query |-> IF q <= Len(body)
                             THEN Some(SubSeq(body, q + 1, Len(body)))
                             ELSE None])))

\* Scheme2::parse: length of the scheme when s starts with `scheme://`,
\* else None ("http://" and "https://" are recognised in any case)
Scheme_parse(s) ==
    With(FirstNotIn(s, SchemeChars), LAMBDA i :
        IF /\ Len(s) > 3
           /\ i <= Len(s)
           /\ s[i] = ":"
           /\ Len(s) >= i + 2
           /\ s[i + 1] = "/"
           /\ s[i + 2] = "/"
        THEN Some(i - 1)
        ELSE None)

\* Scheme2: the standard schemes http and https are stored in lower case,
\* any other scheme as spelled
Scheme_normalise(sch) ==
    IF \/ eq_ignore_ascii_case(sch, <<"h","t","t","p">>)
       \/ eq_ignore_ascii_case(sch, <<"h","t","t","p","s">>)
    THEN to_ascii_lowercase(sch)
    ELSE sch

\* Authority::parse: index just past the authority (it ends at the first
\* '/', '?' or '#'); Err (None) on an invalid character or a second ':'
Authority_parse(s) ==
    With(FirstIn(s, {"/", "?", "#"}), LAMBDA end :
        IF \/ \E i \in 1..(end - 1) : s[i] \notin AuthorityChars
           \/ Cardinality({i \in 1..(end - 1) : s[i] = ":"}) > 1
        THEN None
        ELSE Some(end - 1))

\* parse_full, after the scheme: authority [path-and-query]
Uri_parse_after_scheme(sch, rest) ==
    With(Authority_parse(rest), LAMBDA aend :
        IF ~aend.some THEN None
        ELSE IF ~sch.some
        THEN IF aend.val # Len(rest) THEN None
             ELSE Some([scheme |-> None, authority |-> Some(rest), pq |-> None])
        ELSE IF aend.val = 0 THEN None
        ELSE With(PathAndQuery_from_shared(SubSeq(rest, aend.val + 1, Len(rest))),
                  LAMBDA pq :
                     IF ~pq.some THEN None
                     ELSE Some([scheme    |-> sch,
                                authority |-> Some(SubSeq(rest, 1, aend.val)),
                                pq        |-> pq])))

\* parse_full: [scheme "://"] authority [path-and-query]
Uri_parse_full(s) ==
    With(Scheme_parse(s), LAMBDA sch :
        IF sch.some
        THEN Uri_parse_after_scheme(Some(Scheme_normalise(SubSeq(s, 1, sch.val))),
                                    SubSeq(s, sch.val + 4, Len(s)))
        ELSE Uri_parse_after_scheme(None, s))

\* <Uri as FromStr>::from_str: Ok(uri) as Some(uri), Err as None
Uri_from_str(s) ==
    IF Len(s) = 0 THEN None
    ELSE IF s[1] = "/" \/ s = <<"*">>
    THEN With(PathAndQuery_from_shared(s), LAMBDA pq :
             IF pq.some
             THEN Some([scheme |-> None, authority |-> None, pq |-> pq])
             ELSE None)
    ELSE Uri_parse_full(s)

\* PathAndQuery::path: an empty path reads as "/"
PathAndQuery_path(pq) == IF pq.path = <<>> THEN <<"/">> ELSE pq.path

\* Uri::path: "" when the URI has neither a path nor a scheme
Uri_path(uri) == IF uri.pq.some THEN PathAndQuery_path(uri.pq.val) ELSE <<>>

\* Uri::path_and_query
Uri_path_and_query(uri) == uri.pq

\* Uri::authority
Uri_authority(uri) == uri.authority

\* Uri::host: the authority without its port
Uri_host(uri) ==
    IF uri.authority.some
    THEN Some(SubSeq(uri.authority.val, 1, FirstIn(uri.authority.val, {":"}) - 1))
    ELSE None

\* Uri::from_parts: Ok(uri) as Some(uri); a scheme needs an authority and a
\* path, an authority together with a path needs a scheme
Uri_from_parts(parts) ==
    IF parts.scheme.some
    THEN IF parts.authority.some /\ parts.pq.some THEN Some(parts) ELSE None
    ELSE IF parts.authority.some /\ parts.pq.some THEN None ELSE Some(parts)

\* <Uri as Display>::fmt
Uri_to_string(uri) ==
    (IF uri.scheme.some THEN Join(uri.scheme.val) \o "://" ELSE "")
    \o (IF uri.authority.some THEN Join(uri.authority.val) ELSE "")
    \o (IF uri.pq.some
        THEN Join(PathAndQuery_path(uri.pq.val))
             \o (IF uri.pq.val.query.some
                 THEN "?" \o Join(uri.pq.val.query.val) ELSE "")
        ELSE "")

----------------------------------------------------------------------------
(* http::HeaderMap, HeaderName, HeaderValue, Method.  A HeaderMap is a     *)
(* sequence of entries [name, value]; names are stored lower-cased, as     *)
(* HeaderName normalises them; a value is a sequence of characters.        *)

\* s without the elements that fail Keep
FilterSeq(s, Keep(_)) == SelectSeq(s, Keep)

\* s with F applied to every element
MapSeq(s, F(_)) == [i \in 1..Len(s) |-> F(s[i])]

\* HeaderName::from_str: a non-empty token, normalised to lower case
HeaderName_from_str(raw) ==
    IF raw = <<>> \/ \E i \in 1..Len(raw) : raw[i] \notin TokenChars
    THEN None
    ELSE Some(Join(to_ascii_lowercase(raw)))

\* Method::from_bytes: a non-empty token, case preserved
Method_from_bytes(raw) ==
    IF raw = <<>> \/ \E i \in 1..Len(raw) : raw[i] \notin TokenChars
    THEN None
    ELSE Some(Join(raw))

\* HeaderValue::to_str: Err on a byte outside visible ASCII
HeaderValue_to_str(value) ==
    IF \E i \in 1..Len(value) : value[i] = OpaqueByte THEN None ELSE Some(value)

\* HeaderMap::get: the first value stored under the name
HeaderMap_get(headers, name) ==
    IF \E i \in 1..Len(headers) : headers[i].name = name
    THEN Some(headers[CHOOSE i \in 1..Len(headers) :
                        /\ headers[i].name = name
                        /\ \A j \in 1..(i - 1) : headers[j].name # name].value)
    ELSE None

\* HeaderMap::remove: drops every value stored under the name
HeaderMap_remove(headers, name) ==
    FilterSeq(headers, LAMBDA e : e.name # name)

\* HeaderMap::insert: the name then holds exactly this one value
HeaderMap_insert(headers, name, value) ==
    Append(HeaderMap_remove(headers, name), [name |-> name, value |-> value])

\* the values stored under a name, in order
HeaderMap_get_all(headers, name) ==
    MapSeq(FilterSeq(headers, LAMBDA e : e.name = name), LAMBDA e : e.value)

----------------------------------------------------------------------------
(* config.rs: the parts of a Route descriptor the router reads *)

\* a parse_bind_addr whose shorthand binds the loopback interface
Listener_parse_bind_addr_Loopback(bind) ==
    IF starts_with(bind, <<":">>)
    THEN SocketAddr_from_str(<<"1","2","7",".","0",".","0",".","1">> \o bind)
    ELSE SocketAddr_from_str(bind)

\* Listener::parse_bind_addr: Ok(addr) as Some, Err as None
Listener_parse_bind_addr(bind) ==
    IF starts_with(bind, <<":">>)
    THEN SocketAddr_from_str(<<"0",".","0",".","0",".","0">> \o bind)
    ELSE SocketAddr_from_str(bind)

\* Upstream::single_target
Upstream_single_target(upstream) ==
    IF upstream.strategy = "single" THEN Some(upstream.target) ELSE None

\* serde_json::Value::as_u64 of config.get("request_secs")
Filter_request_secs(filter) ==
    IF filter.config.request_secs.some /\ filter.config.request_secs.val \in Nat
    THEN Some(filter.config.request_secs.val)
    ELSE None

\* a request_timeout that looks at the first filter only
Route_request_timeout_FirstFilterOnly(route) ==
    IF /\ route.filters # <<>>
       /\ route.filters[1].type = "builtin"
       /\ route.filters[1].name = "timeout"
    THEN Filter_request_secs(route.filters[1])
    ELSE None

\* Route::request_timeout: the first builtin `timeout` filter that carries
\* an unsigned request_secs
Route_request_timeout(route) ==
    LET hits == FilterSeq(route.filters,
                    LAMBDA f : /\ f.type = "builtin"
                               /\ f.name = "timeout"
                               /\ Filter_request_secs(f).some)
    IN  IF hits = <<>> THEN None ELSE Filter_request_secs(hits[1])

----------------------------------------------------------------------------
(* router.rs: route compilation *)

\* a try_from that keeps a predicate whatever its name
HeaderPredicate_try_from_KeepRaw(h) ==
    Some([name |-> Join(to_ascii_lowercase(h.name)), value |-> h.value])

\* HeaderPredicate::try_from
HeaderPredicate_try_from(h) ==
    IF HeaderName_from_str(h.name).some
    THEN Some([name |-> HeaderName_from_str(h.name).val, value |-> h.value])
    ELSE None

\* a predicate that only asks for the header to be there
HeaderPredicate_matches_NameOnly(predicate, headers) ==
    HeaderMap_get(headers, predicate.name).some

\* HeaderPredicate::matches
HeaderPredicate_matches(predicate, headers) ==
    LET got == HeaderMap_get(headers, predicate.name) IN
    /\ got.some
    /\ HeaderValue_to_str(got.val).some
    /\ HeaderValue_to_str(got.val).val = predicate.value

\* RouteMatchers::try_from (never fails: unparsable methods and header
\* names are filtered out)
RouteMatchers_try_from(matchers) ==
    [hosts       |-> MapSeq(IF matchers.hosts.some THEN matchers.hosts.val ELSE <<>>,
                            HostMatcher_new),
     path_prefix |-> matchers.path_prefix,
     methods     |-> IF matchers.methods.some
                     THEN Some(MapSeq(FilterSeq(matchers.methods.val,
                                          LAMBDA m : Method_from_bytes(m).some),
                                      LAMBDA m : Method_from_bytes(m).val))
                     ELSE None,
     headers     |-> MapSeq(FilterSeq(IF matchers.headers.some
                                      THEN matchers.headers.val ELSE <<>>,
                                LAMBDA h : HeaderPredicate_try_from(h).some),
                            LAMBDA h : HeaderPredicate_try_from(h).val)]

\* UpstreamEndpoint::try_from: Ok(endpoint) as Some, Err as None
UpstreamEndpoint_try_from(upstream) ==
    IF ~Upstream_single_target(upstream).some THEN None
    ELSE With(Uri_from_str(Upstream_single_target(upstream).val), LAMBDA uri :
             IF ~uri.some THEN None ELSE Some([uri |-> uri.val]))

\* RouteHandle::try_from: Ok(handle) as Some, Err as None
RouteHandle_try_from(route) ==
    With(UpstreamEndpoint_try_from(route.upstream), LAMBDA upstream :
        IF upstream.some
        THEN Some([name     |-> route.name,
                   matchers |-> RouteMatchers_try_from(route.matchers),
                   upstream |-> upstream.val,
                   timeout  |-> Route_request_timeout(route)])
        ELSE None)

\* Router::build: Ok(router) as Some, Err as None
Router_build(routes) ==
    With(MapSeq(routes, RouteHandle_try_from), LAMBDA handles :
        IF \A i \in 1..Len(handles) : handles[i].some
        THEN Some([routes |-> MapSeq(handles, LAMBDA h : h.val)])
        ELSE None)

----------------------------------------------------------------------------
(* router.rs: matching and selection *)

\* a matcher for which a route without an allowed-method set takes GET only
RouteMatchers_matches_NoMethodsIsGetOnly(rm, host, path, method, headers) ==
    IF /\ rm.hosts # <<>>
       /\ ~\E i \in 1..Len(rm.hosts) : HostMatcher_matches(rm.hosts[i], host)
    THEN FALSE
    ELSE IF rm.path_prefix.some /\ ~starts_with(path, rm.path_prefix.val)
    THEN FALSE
    ELSE IF IF rm.methods.some
            THEN ~\E i \in 1..Len(rm.methods.val) : rm.methods.val[i] = method
            ELSE method # "GET"
    THEN FALSE
    ELSE IF \E i \in 1..Len(rm.headers) :
                ~HeaderPredicate_matches(rm.headers[i], headers)
    THEN FALSE
    ELSE TRUE

\* RouteMatchers::matches
RouteMatchers_matches(rm, host, path, method, headers) ==
    IF /\ rm.hosts # <<>>
       /\ ~\E i \in 1..Len(rm.hosts) : HostMatcher_matches(rm.hosts[i], host)
    THEN FALSE
    ELSE IF rm.path_prefix.some /\ ~starts_with(path, rm.path_prefix.val)
    THEN FALSE
    ELSE IF /\ rm.methods.some
            /\ ~\E i \in 1..Len(rm.methods.val) : rm.methods.val[i] = method
    THEN FALSE
    ELSE IF \E i \in 1..Len(rm.headers) :
                ~HeaderPredicate_matches(rm.headers[i], headers)
    THEN FALSE
    ELSE TRUE

\* Iterator::find over self.routes from position i on: the position of the
\* route found (the reference select returns), or None
RECURSIVE Routes_find(_, _, _, _, _, _)
Routes_find(routes, i, host, path, method, headers) ==
    IF i > Len(routes) THEN None
    ELSE IF RouteMatchers_matches(routes[i].matchers, host, path, method, headers)
    THEN Some(i)
    ELSE Routes_find(routes, i + 1, host, path, method, headers)

\* a select that keeps scanning and returns the last route that matches
Router_select_Last(router, req, host) ==
    LET hits == {i \in 1..Len(router.routes) :
                    RouteMatchers_matches(router.routes[i].matchers, host,
                                          Uri_path(req.uri), req.method, req.headers)}
    IN  IF hits = {} THEN None
        ELSE Some(CHOOSE i \in hits : \A j \in hits : j <= i)

\* Router::select: Some(i) stands for the reference to self.routes[i]
Router_select(router, req, host) ==
    Routes_find(router.routes, 1, host, Uri_path(req.uri), req.method, req.headers)

----------------------------------------------------------------------------
(* proxy.rs: upstream URI construction and request rewriting.  A request   *)
(* is [method, uri, headers].                                              *)

HOP_HEADERS ==
    <<"connection", "keep-alive", "proxy-authenticate", "proxy-authorization",
      "te", "upgrade">>

\* HeaderValue::from_static("https")
FORWARDED_PROTO == <<"h","t","t","p","s">>

\* clean_hop_by_hop: remove the six names, one after the other
RECURSIVE remove_names(_, _, _)
remove_names(headers, names, i) ==
    IF i > Len(names) THEN headers
    ELSE remove_names(HeaderMap_remove(headers, names[i]), names, i + 1)

clean_hop_by_hop(headers) == remove_names(headers, HOP_HEADERS, 1)

\* an upstream URI that keeps the base's own path when the incoming
\* request has none
build_upstream_uri_KeepBasePath(base, incoming) ==
    Uri_from_parts([scheme    |-> base.scheme,
                    authority |-> base.authority,
                    pq        |-> IF Uri_path_and_query(incoming).some
                                  THEN Uri_path_and_query(incoming)
                                  ELSE base.pq])

\* build_upstream_uri: Ok(uri) as Some(uri), Err as None
build_upstream_uri(base, incoming) ==
    Uri_from_parts([scheme    |-> base.scheme,
                    authority |-> base.authority,
                    pq        |-> IF Uri_path_and_query(incoming).some
                                  THEN Uri_path_and_query(incoming)
                                  ELSE PathAndQuery_from_shared(<<"/">>)])

\* a rewrite that only supplies Host when the client sent none
rewrite_request_KeepClientHost(req, base, target) ==
    LET cleaned == clean_hop_by_hop(req.headers)
        hosted  == IF Uri_authority(base).some /\ ~HeaderMap_get(cleaned, "host").some
                   THEN HeaderMap_insert(cleaned, "host", Uri_authority(base).val)
                   ELSE cleaned
    IN  [method  |-> req.method,
         uri     |-> target,
         headers |-> HeaderMap_insert(hosted, "x-forwarded-proto", FORWARDED_PROTO)]

\* a rewrite that forgets one hop-by-hop header
rewrite_request_KeepUpgrade(req, base, target) ==
    LET cleaned == remove_names(req.headers, SubSeq(HOP_HEADERS, 1, 5), 1)
        hosted  == IF Uri_authority(base).some
                   THEN HeaderMap_insert(cleaned, "host", Uri_authority(base).val)
                   ELSE cleaned
    IN  [method  |-> req.method,
         uri     |-> target,
         headers |-> HeaderMap_insert(hosted, "x-forwarded-proto", FORWARDED_PROTO)]

\* rewrite_request
rewrite_request(req, base, target) ==
    LET cleaned == clean_hop_by_hop(req.headers)
        hosted  == IF Uri_authority(base).some
                   THEN HeaderMap_insert(cleaned, "host", Uri_authority(base).val)
                   ELSE cleaned
    IN  [method  |-> req.method,
         uri     |-> target,
         headers |-> HeaderMap_insert(hosted, "x-forwarded-proto", FORWARDED_PROTO)]

\* state.client.request(req): the pooled client connects only for an
\* absolute-form target (scheme and authority); for a CONNECT to a bare
\* authority it supplies the scheme; any other target fails at once,
\* before anything is sent
client_dispatch(req) ==
    IF req.uri.scheme.some /\ req.uri.authority.some THEN Some(req)
    ELSE IF req.method = "CONNECT" /\ req.uri.authority.some
    THEN LET auth == req.uri.authority.val
             port == SubSeq(auth, FirstIn(auth, {":"}) + 1, Len(auth))
         IN  Some([req EXCEPT !.uri.scheme =
                      IF port = <<"4","4","3">>
                      THEN Some(<<"h","t","t","p","s">>)
                      ELSE Some(<<"h","t","t","p">>)])
    ELSE None

\* extract_host: the host of an absolute-form target, else the Host header
extract_host(req) ==
    IF Uri_host(req.uri).some THEN Uri_host(req.uri)
    ELSE IF HeaderMap_get(req.headers, "host").some
    THEN HeaderValue_to_str(HeaderMap_get(req.headers, "host").val)
    ELSE None

----------------------------------------------------------------------------
(* proxy.rs: the request pipeline.  Result<T> is [ok |-> TRUE, val] or     *)
(* [ok |-> FALSE, err].  A response is [status, body].                     *)

Ok(v) == [ok |-> TRUE, val |-> v]

Err(e) == [ok |-> FALSE, err |-> e]

\* response_with
response_with(status, msg) == [status |-> status, body |-> msg]

\* a miss answered as a gateway error
not_found_AsBadGateway == response_with(502, "upstream error")

\* not_found
not_found == response_with(404, "no matching route")

\* an upstream failure answered as a gateway timeout
bad_gateway_AsGatewayTimeout == response_with(504, "upstream timeout")

\* bad_gateway
bad_gateway == response_with(502, "upstream error")

\* internal_error
internal_error == response_with(500, "internal error")

\* proxy_to_upstream up to the client call: the request handed to the
\* client and put on the wire, or the error that ends the forward at once
proxy_to_upstream_begin(req, route) ==
    With(build_upstream_uri(route.upstream.uri, req.uri), LAMBDA uri :
        IF ~uri.some THEN Err("uri")
        ELSE With(client_dispatch(rewrite_request(req, route.upstream.uri, uri.val)),
                  LAMBDA out : IF out.some THEN Ok(out.val) ELSE Err("client")))

\* proxy_to_upstream after the client call: `outcome` is what the awaited
\* future yields, a response, a transport error, or the timeout elapsing
proxy_to_upstream_end(outcome) ==
    CASE outcome.kind = "response" -> Ok(response_with(outcome.status, "upstream body"))
      [] outcome.kind = "elapsed"  -> Err("request timed out")
      [] outcome.kind = "error"    -> Err("transport")

\* a handle_request that hands an upstream failure on with `?`
handle_request_respond_Propagate(response) ==
    IF response.ok THEN Ok(response.val) ELSE response

\* handle_request, the match on the upstream result: what it returns
handle_request_respond(response) ==
    IF response.ok THEN Ok(response.val) ELSE Ok(bad_gateway)

\* handle_request, the match on the upstream result: the counters it bumps
handle_request_respond_metrics(response) ==
    IF response.ok THEN <<>> ELSE <<"error">>

\* handle_request up to the upstream call.  kind "done": it returned
\* `result` without awaiting; kind "pending": it awaits the upstream, `fwd`
\* went out.  `route` is the selection, `metrics` the counters bumped.
handle_request_begin(router, req) ==
    With(extract_host(req), LAMBDA host :
    With(Router_select(router, req, IF host.some THEN host.val ELSE <<>>), LAMBDA sel :
        IF ~sel.some
        THEN [kind |-> "done", route |-> None, result |-> Ok(not_found),
              metrics |-> <<"miss">>, outcome |-> "miss"]
        ELSE With(proxy_to_upstream_begin(req, router.routes[sel.val]), LAMBDA up :
                 IF up.ok
                 THEN [kind |-> "pending", route |-> sel, fwd |-> up.val,
                       metrics |-> <<"hit">>]
                 ELSE [kind |-> "done", route |-> sel,
                       result |-> handle_request_respond(up),
                       metrics |-> <<"hit">> \o handle_request_respond_metrics(up),
                       outcome |-> up.err])))

\* the service closure of handle_connection, a Result<Response, hyper::Error>:
\* an Err of handle_request becomes the 500 response
service(handled) == IF handled.ok THEN Ok(handled.val) ELSE Ok(internal_error)

\* metrics::counter!(.., "outcome" => label).increment(1), for each label
RECURSIVE increment_all(_, _)
increment_all(metrics, labels) ==
    IF labels = <<>> THEN metrics
    ELSE increment_all([metrics EXCEPT ![Head(labels)] = @ + 1], Tail(labels))

----------------------------------------------------------------------------
(* proxy.rs: the tracing span of handle_request.  A field declared         *)
(* tracing::field::Empty is None until span.record gives it a value.       *)

\* info_span!("request", ..)
span_new(req, host) ==
    [method      |-> req.method,
     path        |-> Uri_path(req.uri),
     host        |-> IF host.some THEN host.val ELSE <<>>,
     route       |-> None,
     status      |-> None,
     duration_ms |-> None]

\* handle_request, the arm of a missing route: what the span holds at return
handle_request_miss_span(span) ==
    [span EXCEPT !.status = Some(not_found.status)]

\* handle_request, the match on the upstream result: what the span holds
\* at return
handle_request_respond_span(span, response, duration) ==
    [span EXCEPT !.status = Some(IF response.ok THEN response.val.status
                                 ELSE bad_gateway.status),
                 !.duration_ms = Some(duration)]

\* handle_request up to the upstream call: the span at return, or at the
\* await of the upstream
handle_request_begin_span(router, req, duration) ==
    With(extract_host(req), LAMBDA host :
    With(Router_select(router, req, IF host.some THEN host.val ELSE <<>>), LAMBDA sel :
        IF ~sel.some
        THEN handle_request_miss_span(span_new(req, host))
        ELSE With([span_new(req, host) EXCEPT !.route = Some(router.routes[sel.val].name)],
                  LAMBDA span :
                 With(proxy_to_upstream_begin(req, router.routes[sel.val]), LAMBDA up :
                     IF up.ok THEN span
                     ELSE handle_request_respond_span(span, up, duration)))))

----------------------------------------------------------------------------
(* config.rs and proxy.rs: construction.  A file is None (it cannot be     *)
(* read) or Some(sequence of PEM sections), a section being [tag, der] or  *)
(* a section that does not decode (tag "malformed").  der is "cert" for a  *)
(* DER certificate, "key" for a private key rustls can use, "other" for    *)
(* bytes that are neither.                                                 *)

\* characters str::trim removes
Whitespace == {" "}

\* str::trim(s).is_empty()
trim_is_empty(s) == \A i \in 1..Len(s) : s[i] \in Whitespace

\* Tls::validate
Tls_validate(tls) ==
    IF trim_is_empty(tls.cert) \/ trim_is_empty(tls.key)
    THEN Err("tls cert and key paths must be provided")
    ELSE Ok("unit")

\* Listener::validate
Listener_validate(listener) ==
    IF trim_is_empty(listener.name) THEN Err("listener name must not be empty")
    ELSE IF ~Listener_parse_bind_addr(listener.bind).some
    THEN Err("invalid bind address")
    ELSE IF listener.tls.some THEN Tls_validate(listener.tls.val)
    ELSE Err("listener must specify tls.cert and tls.key")

\* Upstream::validate
Upstream_validate(upstream) ==
    IF upstream.strategy # "single" THEN Err("upstream strategy is not supported")
    ELSE IF Uri_from_str(upstream.target).some THEN Ok("unit")
    ELSE Err("invalid upstream target")

\* Route::validate
Route_validate(route) ==
    IF route.name = "" THEN Err("route name must not be empty")
    ELSE IF ~route.matchers.hosts.some \/ route.matchers.hosts.val = <<>>
    THEN Err("route must declare at least one host matcher")
    ELSE Upstream_validate(route.upstream)

\* the first Err of a sequence of results, or Ok of their values
collect(results) ==
    IF \E i \in 1..Len(results) : ~results[i].ok
    THEN results[CHOOSE i \in 1..Len(results) :
                    ~results[i].ok /\ \A j \in 1..(i - 1) : results[j].ok]
    ELSE Ok([i \in 1..Len(results) |-> results[i].val])

\* some name occurs twice
has_duplicate_name(items) ==
    \E i, j \in 1..Len(items) : i < j /\ items[i].name = items[j].name

\* Config::validate
Config_validate(config) ==
    IF config.listeners = <<>> THEN Err("at least one listener is required")
    ELSE IF ~collect([i \in 1..Len(config.listeners) |->
                        Listener_validate(config.listeners[i])]).ok
    THEN collect([i \in 1..Len(config.listeners) |->
                    Listener_validate(config.listeners[i])])
    ELSE IF has_duplicate_name(config.listeners) THEN Err("duplicate listener name")
    ELSE IF config.routes = <<>> THEN Err("at least one route is required")
    ELSE IF ~collect([i \in 1..Len(config.routes) |-> Route_validate(config.routes[i])]).ok
    THEN collect([i \in 1..Len(config.routes) |-> Route_validate(config.routes[i])])
    ELSE IF has_duplicate_name(config.routes) THEN Err("duplicate route name")
    ELSE Ok("unit")

\* ResolvedListener::try_from
ResolvedListener_try_from(listener) ==
    IF ~Listener_parse_bind_addr(listener.bind).some THEN Err("invalid socket address")
    ELSE IF ~listener.tls.some
    THEN Err("TLS configuration is required for every listener in v0.0.1")
    ELSE Ok([name |-> listener.name,
             addr |-> Listener_parse_bind_addr(listener.bind).val,
             tls  |-> listener.tls.val])

\* Config::resolved_listeners
Config_resolved_listeners(config) ==
    collect([i \in 1..Len(config.listeners) |->
                ResolvedListener_try_from(config.listeners[i])])

\* the sections of a PEM file that carry tag
SectionsTagged(sections, tags) == FilterSeq(sections, LAMBDA s : s.tag \in tags)

\* load_certs: every CERTIFICATE section of the file, undecoded; an error
\* when the file cannot be read or a section does not decode
load_certs(fs, path) ==
    IF ~fs[path].some THEN Err("failed to read cert")
    ELSE IF \E i \in 1..Len(fs[path].val) : fs[path].val[i].tag = "malformed"
    THEN Err("invalid certificate data")
    ELSE Ok(MapSeq(SectionsTagged(fs[path].val, {"CERTIFICATE"}), LAMBDA s : s.der))

\* the tags of the key encodings load_private_key takes
KeyTags == {"PRIVATE KEY", "RSA PRIVATE KEY", "EC PRIVATE KEY"}

\* load_private_key from section i on: the first key section wins, a
\* section that does not decode before it is an error
RECURSIVE read_key(_, _)
read_key(sections, i) ==
    IF i > Len(sections) THEN Err("no usable private keys found")
    ELSE IF sections[i].tag = "malformed" THEN Err("invalid key format")
    ELSE IF sections[i].tag \in KeyTags THEN Ok(sections[i].der)
    ELSE read_key(sections, i + 1)

\* load_private_key
load_private_key(fs, path) ==
    IF ~fs[path].some THEN Err("failed to read key") ELSE read_key(fs[path].val, 1)

\* ServerConfig::with_single_cert of rustls 0.21: the key must be one a
\* signing scheme can be built from; the chain is taken as it is
with_single_cert(certs, key) ==
    IF key = "key" THEN Ok([certs |-> certs, key |-> key])
    ELSE Err("invalid certificate/key pair")

\* build_tls_config
build_tls_config(fs, listener) ==
    IF ~load_certs(fs, listener.tls.cert).ok THEN load_certs(fs, listener.tls.cert)
    ELSE IF ~load_private_key(fs, listener.tls.key).ok
    THEN load_private_key(fs, listener.tls.key)
    ELSE with_single_cert(load_certs(fs, listener.tls.cert).val,
                          load_private_key(fs, listener.tls.key).val)

\* ListenerRuntime::try_from
ListenerRuntime_try_from(fs, resolved) ==
    IF build_tls_config(fs, resolved).ok
    THEN Ok([name |-> resolved.name, addr |-> resolved.addr,
             acceptor |-> build_tls_config(fs, resolved).val])
    ELSE build_tls_config(fs, resolved)

\* Proxy::new
Proxy_new(fs, config) ==
    IF ~Config_validate(config).ok THEN Config_validate(config)
    ELSE IF ~Router_build(config.routes).some THEN Err("router")
    ELSE IF ~Config_resolved_listeners(config).ok THEN Config_resolved_listeners(config)
    ELSE With(Config_resolved_listeners(config).val, LAMBDA resolved :
         With(collect([i \in 1..Len(resolved) |->
                          ListenerRuntime_try_from(fs, resolved[i])]), LAMBDA runtimes :
             IF runtimes.ok
             THEN Ok([router    |-> Router_build(config.routes).val,
                      listeners |-> runtimes.val])
             ELSE runtimes))

----------------------------------------------------------------------------
(* Named strings of the input domains *)

S_api == <<"/","a","p","i">>

S_api_x == <<"/","a","p","i","/","x">>

S_slash == <<"/">>

S_other == <<"/","o","t","h","e","r">>

S_y_1 == <<"y","=","1">>

S_ignored_path == <<"/","i","g","n","o","r","e","d","-","p","a","t","h">>

S_GET == <<"G","E","T">>

S_POST == <<"P","O","S","T">>

S_get == <<"g","e","t">>

S_bad_method == <<"G"," ","T">>

S_X_Env == <<"X","-","E","n","v">>

S_bad_name == <<"x"," ","e","n","v">>

S_prod == <<"p","r","o","d">>

S_dev == <<"d","e","v">>

S_up_authority == <<"1","2","7",".","0",".","0",".","1",":","9","0","0","0">>

S_target_abs == <<"h","t","t","p",":","/","/","1","2","7",".","0",".","0",".","1",":","9","0","0","0","/","i","g","n","o","r","e","d","-","p","a","t","h">>

S_target_abs_q == <<"H","T","T","P","S",":","/","/","u","p",".","l","o","c","a","l","/","b","a","s","e","?","k","=","v">>

S_target_bare == <<"h","t","t","p",":","/","/","u","p",".","l","o","c","a","l">>

S_target_authority == <<"u","p",".","l","o","c","a","l",":","9","0","0","0">>

S_target_path == <<"/","o","n","l","y","/","p","a","t","h">>

S_target_star == <<"*">>

S_target_space == <<"h","t","t","p",":","/","/","u","p"," ","l","o","c","a","l","/">>

S_target_noauth == <<"h","t","t","p",":","/","/","/","x">>

S_https == <<"h","t","t","p","s">>

S_opaque == <<"p", OpaqueByte>>

----------------------------------------------------------------------------
(* Input domain of the host-matching specification *)

\* all strings over Alphabet of length 0..n
StringsUpTo(n) == UNION {[1..k -> Alphabet] : k \in 0..n}

S_svc_local == <<"s","v","c",".","l","o","c","a","l">>

S_foo_svc_local == <<"f","o","o",".">> \o S_svc_local

S_foo_svc == <<"f","o","o",".","s","v","c">>

S_FOO_SVC_LOCAL == <<"F","O","O",".","S","V","C",".","L","O","C","A","L">>

S_evilsvc_local == <<"e","v","i","l">> \o S_svc_local

S_Example_com == <<"E","x","a","m","p","l","e",".","c","o","m">>

S_example_com == <<"e","x","a","m","p","l","e",".","c","o","m">>

S_ip_10_0_0_1 == <<"1","0",".","0",".","0",".","1">>

S_ip_bad == <<"1","0",".","0",".","0",".","0","1">>

NamedHosts ==
    {S_svc_local, S_foo_svc_local, S_foo_svc, S_FOO_SVC_LOCAL,
     S_evilsvc_local, S_Example_com, S_example_com, S_ip_10_0_0_1, S_ip_bad}

Hosts == StringsUpTo(MaxLen) \cup NamedHosts

\* patterns of every HostMatcher variant
HostPatterns ==
    {<<"*">>}
    \cup {<<"*", ".">> \o s : s \in StringsUpTo(MaxLen - 1) \cup {S_svc_local}}
    \cup StringsUpTo(MaxLen - 1)
    \cup {S_Example_com, S_ip_10_0_0_1}

----------------------------------------------------------------------------
(* Input domain of the router specification *)

\* longest route table
MaxRoutes == 2

UpstreamSingle(target) == [strategy |-> "single", target |-> target]

TimeoutFilter(secs) ==
    [type |-> "builtin", name |-> "timeout", config |-> [request_secs |-> Some(secs)]]

RouteDesc(name, hosts, prefix, methods, headers, target, filters) ==
    [name     |-> name,
     matchers |-> [hosts |-> hosts, path_prefix |-> prefix,
                   methods |-> methods, headers |-> headers],
     filters  |-> filters,
     upstream |-> UpstreamSingle(target)]

\* wildcard host + path prefix, any method, with a 5 s timeout
Route_api ==
    RouteDesc("api", Some(<< <<"*", ".">> \o S_svc_local >>), Some(S_api),
              None, None, S_target_abs, <<TimeoutFilter(5)>>)

\* every host, GET only
Route_get ==
    RouteDesc("get", Some(<< <<"*">> >>), None,
              Some(<<S_GET>>), None, S_target_bare, <<>>)

\* exact host, POST (plus an unparsable method), one header predicate
Route_post ==
    RouteDesc("post", Some(<<S_Example_com>>), None,
              Some(<<S_POST, S_bad_method>>),
              Some(<<[name |-> S_X_Env, value |-> S_prod]>>), S_target_abs_q, <<>>)

\* every host, prefix "/", a predicate with a malformed header name
Route_root ==
    RouteDesc("root", Some(<< <<"*">> >>), Some(S_slash), None,
              Some(<<[name |-> S_bad_name, value |-> S_prod]>>), S_target_path, <<>>)

\* no host patterns at all, only unparsable methods
Route_nohost ==
    RouteDesc("nohost", None, Some(S_other), Some(<<S_bad_method>>), None,
              S_target_authority, <<>>)

\* an upstream target that is no URI
Route_badup ==
    RouteDesc("badup", Some(<< <<"*">> >>), None, None, None, S_target_space, <<>>)

\* every host, a header predicate with an unparsable name ahead of a
\* well-formed one
Route_mixed ==
    RouteDesc("mixed", Some(<< <<"*">> >>), None, None,
              Some(<<[name |-> S_bad_name, value |-> S_dev],
                     [name |-> S_X_Env, value |-> S_prod]>>), S_target_abs, <<>>)

RoutePool ==
    {Route_api, Route_get, Route_post, Route_root, Route_nohost, Route_badup, Route_mixed}

\* route tables of 0..n descriptors
RouteTables(n) == UNION {[1..k -> RoutePool] : k \in 0..n}

Hdr(name, value) == [name |-> name, value |-> value]

\* header maps as hyper hands them over (names already lower case)
HeaderMaps ==
    {<<>>,
     <<Hdr("x-env", S_prod)>>,
     <<Hdr("x-env", S_dev), Hdr("x-env", S_prod)>>,
     <<Hdr("x-env", S_opaque)>>}

OriginUri(path, query) ==
    [scheme |-> None, authority |-> None, pq |-> Some([path |-> path, query |-> query])]

\* request targets: origin-form with and without query, and the
\* authority-form of CONNECT, which has no path
RequestUris ==
    {OriginUri(S_api_x, Some(S_y_1)), OriginUri(S_slash, None),
     OriginUri(S_other, None),
     [scheme |-> None, authority |-> Some(S_up_authority), pq |-> None]}

RouterRequests ==
    [method : {"GET", "POST", "get"}, uri : RequestUris, headers : HeaderMaps]

RouterHosts == {S_foo_svc_local, S_example_com, S_foo_svc, <<>>}

----------------------------------------------------------------------------
(* Router specification: build a router from descriptors, select a route   *)
(* for one request.                                                        *)

RouterInit ==
    /\ rPc = "config"
    /\ rConfig \in RouteTables(MaxRoutes)
    /\ rReq \in {Some(r) : r \in RouterRequests}
    /\ rHostArg \in RouterHosts
    /\ rRouter = None
    /\ rSel = None
    /\ HostIdle
    /\ ForwardIdle
    /\ ProxyIdle
    /\ TimeoutIdle
    /\ BindIdle
    /\ StartupIdle
    /\ RequestIdle

\* Router::build(&config.routes): Ok(router), or Err and no router
RouterBuild ==
    /\ rPc = "config"
    /\ rRouter' = Router_build(rConfig)
    /\ rPc' = IF rRouter'.some THEN "built" ELSE "failed"
    /\ UNCHANGED <<rConfig, rReq, rHostArg, rSel, routerRest>>

\* router.select(&req, host)
RouterSelect ==
    /\ rPc = "built"
    /\ rSel' = Router_select(rRouter.val, rReq.val, rHostArg)
    /\ rPc' = "selected"
    /\ UNCHANGED <<rConfig, rReq, rHostArg, rRouter, routerRest>>

RouterNext == RouterBuild \/ RouterSelect

SpecRouter == RouterInit /\ [][RouterNext]_vars

----------------------------------------------------------------------------
(* C3 *)

\* the host matchers of a compiled route hold (a route compiled without
\* host matchers constrains no host)
HostHolds(rm, host) ==
    rm.hosts = <<>> \/ \E i \in 1..Len(rm.hosts) : HostMatcher_matches(rm.hosts[i], host)

PathPrefixHolds(rm, path) ==
    rm.path_prefix.some => starts_with(path, rm.path_prefix.val)

MethodHolds(rm, method) ==
    rm.methods.some => \E i \in 1..Len(rm.methods.val) : rm.methods.val[i] = method

HeadersHold(rm, headers) ==
    \A i \in 1..Len(rm.headers) : HeaderPredicate_matches(rm.headers[i], headers)

\* the declaration indexes of the compiled routes all of whose matchers
\* hold for the request of the router specification
MatchingIndexes ==
    {i \in 1..Len(rRouter.val.routes) :
        LET rm == rRouter.val.routes[i].matchers IN
        /\ HostHolds(rm, rHostArg)
        /\ PathPrefixHolds(rm, Uri_path(rReq.val.uri))
        /\ MethodHolds(rm, rReq.val.method)
        /\ HeadersHold(rm, rReq.val.headers)}

\* C3: Router::select returns the route with the smallest declaration index
\* among the compiled routes whose matchers all hold for the request, and
\* returns none exactly when no compiled route matches.
C3_SelectFirstMatch ==
    rPc = "selected" =>
        /\ rSel.some <=> MatchingIndexes # {}
        /\ rSel.some =>
              /\ rSel.val \in MatchingIndexes
              /\ \A j \in MatchingIndexes : rSel.val <= j

\* two routes match and the earlier one was selected
C3_Witness ==
    /\ rPc = "selected"
    /\ Cardinality(MatchingIndexes) = 2
    /\ rSel = Some(1)
    /\ rRouter.val.routes[1].name # rRouter.val.routes[2].name

----------------------------------------------------------------------------
(* C12 *)

\* the methods requests of the router specification carry
RequestMethods == {r.method : r \in RouterRequests}

\* C12: a route with no configured methods matches requests of every
\* method: for a compiled route without an allowed-method set the method
\* predicate holds for all request methods, and for a route with an
\* allowed-method set it holds exactly for the methods in that set
\* (compared case-sensitively).
C12_MethodPredicate ==
    rPc \in {"built", "selected"} =>
        \A i \in 1..Len(rRouter.val.routes) :
            LET rm == rRouter.val.routes[i].matchers IN
            /\ ~rConfig[i].matchers.methods.some => ~rm.methods.some
            /\ (/\ HostHolds(rm, rHostArg)
                /\ PathPrefixHolds(rm, Uri_path(rReq.val.uri))
                /\ HeadersHold(rm, rReq.val.headers))
               => \A method \in RequestMethods :
                      RouteMatchers_matches(rm, rHostArg, Uri_path(rReq.val.uri),
                                            method, rReq.val.headers)
                      <=> \/ ~rm.methods.some
                          \/ /\ rm.methods.some
                             /\ method \in {rm.methods.val[k] :
                                                k \in 1..Len(rm.methods.val)}

\* a route without an allowed-method set was selected for a request whose
\* method is not a standard one, and a route allowing GET was passed over
\* for the same request
C12_Witness ==
    /\ rPc = "selected"
    /\ Len(rRouter.val.routes) = 2
    /\ rRouter.val.routes[1].matchers.methods = Some(<<"GET">>)
    /\ ~rRouter.val.routes[2].matchers.methods.some
    /\ rReq.val.method = "get"
    /\ HostHolds(rRouter.val.routes[1].matchers, rHostArg)
    /\ rSel = Some(2)

----------------------------------------------------------------------------
(* C13 *)

\* the descriptor's upstream target is no well-formed URI
BadTarget(route) == ~Uri_from_str(route.upstream.target).some

\* the descriptor lists a method string that is no HTTP method
BadMethod(route) ==
    /\ route.matchers.methods.some
    /\ \E k \in 1..Len(route.matchers.methods.val) :
          ~Method_from_bytes(route.matchers.methods.val[k]).some

\* C13: Router::build returns an error, and produces no Router, whenever
\* any route descriptor has an upstream target that is not a well-formed
\* URI or a method string that cannot be parsed as an HTTP method.
C13_BuildFailsOnBadInput ==
    (/\ rPc # "config"
     /\ \E i \in 1..Len(rConfig) : BadTarget(rConfig[i]) \/ BadMethod(rConfig[i]))
    => /\ rPc = "failed"
       /\ ~rRouter.some

----------------------------------------------------------------------------
(* C25, C26 *)

\* the header predicates a route descriptor declares
DeclaredHeaders(route) ==
    IF route.matchers.headers.some THEN route.matchers.headers.val ELSE <<>>

\* the name of a declared predicate is a header name: a non-empty token
WellFormedName(declared) ==
    /\ declared.name # <<>>
    /\ \A i \in 1..Len(declared.name) : declared.name[i] \in TokenChars

\* the request has a header of the declared name, compared
\* case-insensitively, whose value is exactly the expected one
DeclaredHolds(declared, headers) ==
    \E i \in 1..Len(headers) :
        /\ headers[i].name = Join(to_ascii_lowercase(declared.name))
        /\ headers[i].value = declared.value

\* compiled route i matches the request of the router specification
MatchesRequest(i) ==
    RouteMatchers_matches(rRouter.val.routes[i].matchers, rHostArg,
                          Uri_path(rReq.val.uri), rReq.val.method, rReq.val.headers)

\* C25 as stated: a route matches a request only if every header predicate
\* declared for that route holds.
C25_Original ==
    rPc \in {"built", "selected"} =>
        \A i \in 1..Len(rRouter.val.routes) :
            MatchesRequest(i) =>
                \A k \in 1..Len(DeclaredHeaders(rConfig[i])) :
                    DeclaredHolds(DeclaredHeaders(rConfig[i])[k], rReq.val.headers)

\* C25: a route matches a request only if every header predicate declared
\* for that route under a well-formed header name holds, where a predicate
\* holds when the request has a header of that name (compared
\* case-insensitively) whose value is exactly equal to the expected value.
C25_HeaderPredicates ==
    rPc \in {"built", "selected"} =>
        \A i \in 1..Len(rRouter.val.routes) :
            MatchesRequest(i) =>
                \A k \in 1..Len(DeclaredHeaders(rConfig[i])) :
                    WellFormedName(DeclaredHeaders(rConfig[i])[k]) =>
                        DeclaredHolds(DeclaredHeaders(rConfig[i])[k], rReq.val.headers)

\* the selected route declares a well-formed header predicate, and another
\* route, earlier in the table, declares the same one and was passed over
C25_Witness ==
    /\ rPc = "selected"
    /\ rSel = Some(2)
    /\ ~MatchesRequest(1)
    /\ \A i \in 1..2 :
          \E k \in 1..Len(DeclaredHeaders(rConfig[i])) :
              WellFormedName(DeclaredHeaders(rConfig[i])[k])

\* the descriptor without the header predicates of malformed name
WithoutMalformed(route) ==
    [route EXCEPT !.matchers.headers =
        IF @.some THEN Some(FilterSeq(@.val, WellFormedName)) ELSE @]

\* some descriptor of the table declares a predicate of malformed name
DeclaresMalformed ==
    \E i \in 1..Len(rConfig) :
        \E k \in 1..Len(DeclaredHeaders(rConfig[i])) :
            ~WellFormedName(DeclaredHeaders(rConfig[i])[k])

\* C26: a header predicate whose header name is malformed does not make
\* Router::build fail: the table builds exactly when it builds without the
\* malformed predicates, and then every route compiles to what it compiles
\* to without them, so that it keeps its other predicates and matches the
\* same requests.
C26_MalformedPredicateDropped ==
    rPc # "config" =>
        /\ rRouter.some <=> Router_build(MapSeq(rConfig, WithoutMalformed)).some
        /\ rRouter.some =>
              /\ rRouter = Router_build(MapSeq(rConfig, WithoutMalformed))
              /\ \A i \in 1..Len(rRouter.val.routes) :
                    Len(rRouter.val.routes[i].matchers.headers)
                        = Len(DeclaredHeaders(WithoutMalformed(rConfig[i])))

\* a route that declares a malformed and a well-formed predicate was built
\* and is selected for a request the well-formed one admits
C26_Witness ==
    /\ rPc = "selected"
    /\ rSel.some
    /\ \E k \in 1..Len(DeclaredHeaders(rConfig[rSel.val])) :
          ~WellFormedName(DeclaredHeaders(rConfig[rSel.val])[k])
    /\ Len(rRouter.val.routes[rSel.val].matchers.headers) = 1
    /\ ~DeclaredHolds(DeclaredHeaders(rConfig[rSel.val])[1], rReq.val.headers)

----------------------------------------------------------------------------
(* Host-matching specification: compile one pattern, match one host        *)
(* (the test helper test_matcher of router.rs, reduced to the host step).  *)

HostInit ==
    /\ hPc = "new"
    /\ hPattern \in HostPatterns
    /\ hHost \in Hosts
    /\ hMatcher = None
    /\ hResult = None
    /\ RouterIdle
    /\ ForwardIdle
    /\ ProxyIdle
    /\ TimeoutIdle
    /\ BindIdle
    /\ StartupIdle
    /\ RequestIdle

\* HostMatcher::new(pattern)
HostCompile ==
    /\ hPc = "new"
    /\ hMatcher' = Some(HostMatcher_new(hPattern))
    /\ hPc' = "compiled"
    /\ UNCHANGED <<hPattern, hHost, hResult, hostRest>>

\* matcher.matches(host)
HostMatch ==
    /\ hPc = "compiled"
    /\ hResult' = Some(HostMatcher_matches(hMatcher.val, hHost))
    /\ hPc' = "done"
    /\ UNCHANGED <<hPattern, hHost, hMatcher, hostRest>>

HostNext == HostCompile \/ HostMatch

SpecHost == HostInit /\ [][HostNext]_vars

----------------------------------------------------------------------------
(* C10 *)

\* the host, compared case-insensitively, ends with s: some tail of the
\* host has the length of s and agrees with it character by character
\* once both are folded to lower case
EndsWithIgnoringCase(host, s) ==
    \E k \in 0..Len(host) :
        /\ Len(host) - k = Len(s)
        /\ \A i \in 1..Len(s) :
              char_to_ascii_lowercase(host[k + i]) = char_to_ascii_lowercase(s[i])

\* C10: for a host pattern '*.S' a host matches if and only if the host,
\* compared case-insensitively, ends with S; '*.svc.local' matches
\* 'foo.svc.local' and does not match 'foo.svc'.
C10_WildcardSuffix ==
    (hPc = "done" /\ starts_with(hPattern, <<"*", ".">>)) =>
        /\ hMatcher.val.kind = "Wildcard"
        /\ hResult.val = EndsWithIgnoringCase(hHost, SubSeq(hPattern, 3, Len(hPattern)))
        /\ (hPattern = <<"*", ".">> \o S_svc_local /\ hHost = S_foo_svc_local)
              => hResult.val = TRUE
        /\ (hPattern = <<"*", ".">> \o S_svc_local /\ hHost = S_foo_svc)
              => hResult.val = FALSE

\* a wildcard pattern matched a host that differs from it in case
C10_Witness ==
    /\ hPc = "done"
    /\ hPattern = <<"*", ".">> \o S_svc_local
    /\ hHost = S_FOO_SVC_LOCAL
    /\ hResult.val = TRUE

----------------------------------------------------------------------------
(* C11 *)

\* the two strings have the same length and agree character by character
\* once both are folded to lower case
EqualIgnoringCase(a, b) ==
    /\ Len(a) = Len(b)
    /\ \A i \in 1..Len(a) :
          char_to_ascii_lowercase(a[i]) = char_to_ascii_lowercase(b[i])

\* the pattern is neither '*', nor an IP literal, nor a '*.' wildcard
PlainPattern(pattern) ==
    /\ pattern # <<"*">>
    /\ ~ParseIpAddr(pattern).some
    /\ ~starts_with(pattern, <<"*", ".">>)

\* C11: for a host pattern that is neither '*', an IP literal nor a '*.'
\* wildcard, a host matches if and only if it equals the whole pattern
\* ignoring ASCII case; 'Example.com' matches 'example.com', and no proper
\* prefix, suffix or superstring of the pattern matches.
C11_ExactIgnoringCase ==
    (hPc = "done" /\ PlainPattern(hPattern)) =>
        /\ hMatcher.val.kind = "Exact"
        /\ hResult.val = EqualIgnoringCase(hHost, hPattern)
        /\ Len(hHost) # Len(hPattern) => hResult.val = FALSE
        /\ (hPattern = S_Example_com /\ hHost = S_example_com) => hResult.val = TRUE

\* the exact pattern 'Example.com' matched the host 'example.com'
C11_Witness ==
    /\ hPc = "done"
    /\ hPattern = S_Example_com
    /\ hHost = S_example_com
    /\ hMatcher.val.kind = "Exact"
    /\ hResult.val = TRUE


----------------------------------------------------------------------------
(* Input domain of the forwarding specification *)

\* most headers a client request carries
MaxHeaders == 3

\* upstream targets as written in the configuration
UpstreamTargets ==
    {S_target_abs, S_target_abs_q, S_target_bare, S_target_authority,
     S_target_path, S_target_star, S_target_space, S_target_noauth}

\* the headers a client may send, in wire order
ClientHeaderPool ==
    <<Hdr("host", S_example_com),
      Hdr("connection", S_dev),
      Hdr("keep-alive", S_dev),
      Hdr("proxy-authenticate", S_dev),
      Hdr("proxy-authorization", S_dev),
      Hdr("te", S_dev),
      Hdr("upgrade", S_dev),
      Hdr("x-forwarded-proto", S_dev),
      Hdr("x-env", S_prod),
      Hdr("upgrade", S_prod),
      Hdr("x-forwarded-proto", S_prod),
      Hdr("host", S_up_authority)>>

\* the entries of the pool at the positions in picks, in wire order
RECURSIVE PickHeaders(_, _)
PickHeaders(picks, i) ==
    IF i > Len(ClientHeaderPool) THEN <<>>
    ELSE (IF i \in picks THEN <<ClientHeaderPool[i]>> ELSE <<>>)
         \o PickHeaders(picks, i + 1)

ClientHeaderMaps ==
    {PickHeaders(picks, 1) :
        picks \in {P \in SUBSET (1..Len(ClientHeaderPool)) : Cardinality(P) <= MaxHeaders}}

\* request lines: origin-form, absolute-form, CONNECT authority-form,
\* OPTIONS *
ClientRequestLines ==
    {[method |-> "GET", uri |-> OriginUri(S_api_x, Some(S_y_1))],
     [method |-> "GET", uri |-> OriginUri(S_slash, None)],
     [method |-> "POST",
      uri |-> [scheme |-> Some(<<"h","t","t","p">>), authority |-> Some(S_example_com),
               pq |-> Some([path |-> S_api, query |-> None])]],
     [method |-> "CONNECT",
      uri |-> [scheme |-> None, authority |-> Some(S_up_authority), pq |-> None]],
     [method |-> "OPTIONS", uri |-> OriginUri(<<"*">>, None)]}

ClientRequests ==
    {[method |-> l.method, uri |-> l.uri, headers |-> h] :
        l \in ClientRequestLines, h \in ClientHeaderMaps}

----------------------------------------------------------------------------
(* Forwarding specification: compile one upstream target, then take one    *)
(* request through proxy_to_upstream up to the client call.                *)

ForwardInit ==
    /\ fPc = "config"
    /\ fTarget \in UpstreamTargets
    /\ fClientReq \in {Some(r) : r \in ClientRequests}
    /\ fReq = fClientReq
    /\ fBase = None
    /\ fUri = None
    /\ fSent = None
    /\ HostIdle
    /\ RouterIdle
    /\ ProxyIdle
    /\ TimeoutIdle
    /\ BindIdle
    /\ StartupIdle
    /\ RequestIdle

\* UpstreamEndpoint::try_from(&route.upstream): Ok
ForwardCompileOk ==
    /\ fPc = "config"
    /\ LET ep == UpstreamEndpoint_try_from(UpstreamSingle(fTarget)) IN
          /\ ep.some
          /\ fBase' = Some(ep.val.uri)
    /\ fPc' = "build"
    /\ UNCHANGED <<fTarget, fClientReq, fReq, fUri, fSent, forwardRest>>

\* UpstreamEndpoint::try_from(&route.upstream): Err, the route does not
\* compile
ForwardCompileErr ==
    /\ fPc = "config"
    /\ ~UpstreamEndpoint_try_from(UpstreamSingle(fTarget)).some
    /\ fPc' = "rejected"
    /\ UNCHANGED <<fTarget, fBase, fClientReq, fReq, fUri, fSent, forwardRest>>

\* proxy_to_upstream: build_upstream_uri(..)? then rewrite_request(..)
ForwardRewrite ==
    /\ fPc = "build"
    /\ LET uri == build_upstream_uri(fBase.val, fReq.val.uri) IN
          /\ uri.some
          /\ fUri' = uri
          /\ fReq' = Some(rewrite_request(fReq.val, fBase.val, uri.val))
    /\ fPc' = "request"
    /\ UNCHANGED <<fTarget, fBase, fClientReq, fSent, forwardRest>>

\* proxy_to_upstream: build_upstream_uri(..)? returns the error
ForwardBuildErr ==
    /\ fPc = "build"
    /\ ~build_upstream_uri(fBase.val, fReq.val.uri).some
    /\ fPc' = "failed"
    /\ UNCHANGED <<fTarget, fBase, fClientReq, fReq, fUri, fSent, forwardRest>>

\* state.client.request(req): the request goes out to the upstream
ForwardSend ==
    /\ fPc = "request"
    /\ client_dispatch(fReq.val).some
    /\ fSent' = client_dispatch(fReq.val)
    /\ fPc' = "sent"
    /\ UNCHANGED <<fTarget, fBase, fClientReq, fReq, fUri, forwardRest>>

\* state.client.request(req): the client refuses the target
ForwardRefused ==
    /\ fPc = "request"
    /\ ~client_dispatch(fReq.val).some
    /\ fPc' = "failed"
    /\ UNCHANGED <<fTarget, fBase, fClientReq, fReq, fUri, fSent, forwardRest>>

ForwardNext ==
    \/ ForwardCompileOk
    \/ ForwardCompileErr
    \/ ForwardRewrite
    \/ ForwardBuildErr
    \/ ForwardSend
    \/ ForwardRefused

SpecForward == ForwardInit /\ [][ForwardNext]_vars

----------------------------------------------------------------------------
(* C7 *)

----------------------------------------------------------------------------
(* C8 *)

\* C8: in every request sent to an upstream the Host header is the
\* authority of the route's upstream URI, and nothing else, whatever Host
\* the client sent.
C8_HostRewritten ==
    fSent.some =>
        /\ fBase.val.authority.some
        /\ HeaderMap_get_all(fSent.val.headers, "host") = <<fBase.val.authority.val>>

\* a request went out whose client-supplied Host differs from the
\* upstream authority
C8_Witness ==
    /\ fSent.some
    /\ HeaderMap_get(fClientReq.val.headers, "host") = Some(S_example_com)
    /\ fBase.val.authority = Some(S_up_authority)

----------------------------------------------------------------------------
(* C9 *)

HopNames == {HOP_HEADERS[i] : i \in 1..Len(HOP_HEADERS)}

HeaderNames(headers) == {headers[i].name : i \in 1..Len(headers)}

NoHopByHop(req) == HeaderNames(req.headers) \cap HopNames = {}

ForwardedProtoHttps(req) ==
    HeaderMap_get_all(req.headers, "x-forwarded-proto") = <<FORWARDED_PROTO>>

\* the headers of the client's request and of the sent request agree on
\* every name outside `changed`
LeftInPlaceExcept(changed) ==
    \A name \in (HeaderNames(fClientReq.val.headers)
                 \cup HeaderNames(fSent.val.headers)) \ changed :
        HeaderMap_get_all(fSent.val.headers, name)
            = HeaderMap_get_all(fClientReq.val.headers, name)

\* C9 as stated: no hop-by-hop header is sent, every other client header
\* is left in place, x-forwarded-proto is set to https.
C9_Original ==
    fSent.some =>
        /\ NoHopByHop(fSent.val)
        /\ LeftInPlaceExcept(HopNames \cup {"x-forwarded-proto"})
        /\ ForwardedProtoHttps(fSent.val)

\* C9 amended: no hop-by-hop header is sent; every client header other
\* than the six hop-by-hop ones, Host and x-forwarded-proto is left in
\* place; x-forwarded-proto is exactly https.
C9_HopByHopRemoved ==
    fSent.some =>
        /\ NoHopByHop(fSent.val)
        /\ LeftInPlaceExcept(HopNames \cup {"x-forwarded-proto", "host"})
        /\ ForwardedProtoHttps(fSent.val)

\* a request went out whose client sent a hop-by-hop header twice, an
\* x-forwarded-proto of its own and an end-to-end header
C9_Witness ==
    /\ fSent.some
    /\ HeaderMap_get_all(fClientReq.val.headers, "upgrade") = <<S_dev, S_prod>>
    /\ HeaderMap_get(fClientReq.val.headers, "x-forwarded-proto").some
    /\ HeaderMap_get(fSent.val.headers, "x-forwarded-proto").some

----------------------------------------------------------------------------
(* Timeout specification: a route's timeout is compiled from its filter    *)
(* list, one request is forwarded on the route, and time passes in whole   *)
(* seconds while the client call is pending.                               *)

\* filters per route
MaxFilters == 2

\* seconds a forward without timeout is followed
MaxWait == 3

\* largest request_secs of a configured timeout filter
MaxSecs == 2

Filter(type, name, request_secs) ==
    [type |-> type, name |-> name, config |-> [request_secs |-> request_secs]]

\* builtin timeout filters of 0..MaxSecs seconds, one without request_secs,
\* one whose request_secs is no unsigned integer, a builtin filter of
\* another name, and a wasm filter named timeout
FilterPool ==
    {TimeoutFilter(n) : n \in 0..MaxSecs}
    \cup {Filter("builtin", "timeout", None),
          Filter("builtin", "timeout", Some(-1)),
          Filter("builtin", "retry", Some(1)),
          Filter("wasm", "timeout", Some(1))}

FilterLists == UNION {[1..k -> FilterPool] : k \in 0..MaxFilters}

\* the route descriptor carrying the filters
TimedRoute(filters) ==
    RouteDesc("timed", Some(<< <<"*">> >>), None, None, None, S_target_abs, filters)

TimeoutInit ==
    /\ tPc = "route"
    /\ tFilters \in FilterLists
    /\ tTimeout = None
    /\ tWaited = 0
    /\ tOutcome = "none"
    /\ HostIdle
    /\ RouterIdle
    /\ ForwardIdle
    /\ ProxyIdle
    /\ BindIdle
    /\ StartupIdle
    /\ RequestIdle

\* RouteHandle::try_from: timeout: route.request_timeout()
TimeoutCompile ==
    /\ tPc = "route"
    /\ tTimeout' = RouteHandle_try_from(TimedRoute(tFilters)).val.timeout
    /\ tPc' = "compiled"
    /\ UNCHANGED <<tFilters, tWaited, tOutcome, timeoutRest>>

\* proxy_to_upstream: state.client.request(req) is awaited, under
\* timeout(duration, fut) when the route has a timeout
TimeoutSend ==
    /\ tPc = "compiled"
    /\ tPc' = "pending"
    /\ UNCHANGED <<tFilters, tTimeout, tWaited, tOutcome, timeoutRest>>

\* one second passes with the call pending; the timer of timeout() fires
\* at its deadline, so time does not pass beyond it
TimeoutTick ==
    /\ tPc = "pending"
    /\ tWaited < MaxWait
    /\ tTimeout.some => tWaited < tTimeout.val
    /\ tWaited' = tWaited + 1
    /\ UNCHANGED <<tPc, tFilters, tTimeout, tOutcome, timeoutRest>>

\* the call yields a response
TimeoutRespond ==
    /\ tPc = "pending"
    /\ tPc' = "done"
    /\ tOutcome' = "response"
    /\ UNCHANGED <<tFilters, tTimeout, tWaited, timeoutRest>>

\* the call yields an error
TimeoutFail ==
    /\ tPc = "pending"
    /\ tPc' = "done"
    /\ tOutcome' = "error"
    /\ UNCHANGED <<tFilters, tTimeout, tWaited, timeoutRest>>

\* the deadline is reached: timeout() yields Elapsed and drops the call
TimeoutElapsed ==
    /\ tPc = "pending"
    /\ tTimeout.some
    /\ tWaited = tTimeout.val
    /\ tPc' = "done"
    /\ tOutcome' = "elapsed"
    /\ UNCHANGED <<tFilters, tTimeout, tWaited, timeoutRest>>

TimeoutNext ==
    \/ TimeoutCompile
    \/ TimeoutSend
    \/ TimeoutTick
    \/ TimeoutRespond
    \/ TimeoutFail
    \/ TimeoutElapsed

SpecTimeout == TimeoutInit /\ [][TimeoutNext]_vars

----------------------------------------------------------------------------
(* C14 *)

\* the filter is a builtin filter named 'timeout' whose config has an
\* unsigned request_secs
IsTimeoutFilter(f) ==
    /\ f.type = "builtin"
    /\ f.name = "timeout"
    /\ f.config.request_secs.some
    /\ f.config.request_secs.val >= 0

\* the positions of such filters in the filter list
TimeoutFilterPositions == {i \in 1..Len(tFilters) : IsTimeoutFilter(tFilters[i])}

\* C14: a route's forwarding timeout is n seconds when its filter list
\* contains a builtin filter named 'timeout' whose config has
\* request_secs = n (the first one, if there are several), and is absent
\* when the route has no such filter; a forward on a route with a timeout
\* never stays pending beyond that duration, and one on a route without
\* never times out.
C14_RouteTimeout ==
    tPc \in {"compiled", "pending", "done"} =>
        /\ tTimeout.some <=> TimeoutFilterPositions # {}
        /\ tTimeout.some =>
              \E i \in TimeoutFilterPositions :
                  /\ \A j \in TimeoutFilterPositions : i <= j
                  /\ tTimeout.val = tFilters[i].config.request_secs.val
        /\ (tPc = "pending" /\ tTimeout.some) => tWaited <= tTimeout.val
        /\ tOutcome = "elapsed" => tTimeout.some /\ tWaited = tTimeout.val
        /\ (tPc = "done" /\ tTimeout.some) => tWaited <= tTimeout.val

\* a forward on a route with a two-second timeout timed out after two
\* seconds
C14_Witness ==
    /\ tPc = "done"
    /\ tFilters = <<Filter("builtin", "retry", Some(1)), TimeoutFilter(2)>>
    /\ tTimeout = Some(2)
    /\ tWaited = 2
    /\ tOutcome = "elapsed"

----------------------------------------------------------------------------
(* Bind-address specification: one listener bind value is parsed.          *)

\* longest generated port string
MaxPortLen == 2

\* characters of generated port strings
PortAlphabet == {"0", "8", "a"}

S_8080 == <<"8","0","8","0">>

S_65535 == <<"6","5","5","3","5">>

S_65536 == <<"6","5","5","3","6">>

S_00080 == <<"0","0","0","8","0">>

S_localhost == <<"l","o","c","a","l","h","o","s","t">>

S_ip_127_0_0_1 == <<"1","2","7",".","0",".","0",".","1">>

S_ip_256 == <<"2","5","6",".","0",".","0",".","1">>

PortStrings ==
    UNION {[1..k -> PortAlphabet] : k \in 0..MaxPortLen}
    \cup {S_8080, S_65535, S_65536, S_00080}

\* what stands before the port: nothing but the ':' of the shorthand, an
\* IPv4 literal, a host name, a literal with an octet out of range
BindHosts == {<<>>, S_ip_127_0_0_1, S_ip_10_0_0_1, S_localhost, S_ip_256}

\* bind values: host ':' port, and the same without the ':'
BindValues ==
    {h \o <<":">> \o p : h \in BindHosts, p \in PortStrings}
    \cup {h \o p : h \in BindHosts \ {<<>>}, p \in {<<>>, S_8080}}

BindInit ==
    /\ bPc = "bind"
    /\ bBind \in BindValues
    /\ bAddr = None
    /\ HostIdle
    /\ RouterIdle
    /\ ForwardIdle
    /\ ProxyIdle
    /\ TimeoutIdle
    /\ StartupIdle
    /\ RequestIdle

\* listener.parse_bind_addr() returns Ok
BindParseOk ==
    /\ bPc = "bind"
    /\ Listener_parse_bind_addr(bBind).some
    /\ bAddr' = Listener_parse_bind_addr(bBind)
    /\ bPc' = "parsed"
    /\ UNCHANGED <<bBind, bindRest>>

\* listener.parse_bind_addr() returns Err
BindParseErr ==
    /\ bPc = "bind"
    /\ ~Listener_parse_bind_addr(bBind).some
    /\ bAddr' = None
    /\ bPc' = "rejected"
    /\ UNCHANGED <<bBind, bindRest>>

BindNext == BindParseOk \/ BindParseErr

SpecBind == BindInit /\ [][BindNext]_vars

----------------------------------------------------------------------------
(* C15 *)

\* the number a string of decimal digits spells
RECURSIVE DecimalValue(_)
DecimalValue(t) ==
    IF t = <<>> THEN 0
    ELSE 10 * DecimalValue(SubSeq(t, 1, Len(t) - 1)) + DigitVal(t[Len(t)])

\* a valid port: decimal digits spelling a number of 0..65535
ValidPort(t) ==
    /\ t # <<>>
    /\ \A i \in 1..Len(t) : t[i] \in {"0","1","2","3","4","5","6","7","8","9"}
    /\ DecimalValue(t) <= 65535

\* the IPv4 addresses the bind values spell out
SpelledAddresses ==
    {<<S_ip_127_0_0_1, <<127, 0, 0, 1>> >>, <<S_ip_10_0_0_1, <<10, 0, 0, 1>> >>}

\* C15: a bind value ':PORT' resolves to 0.0.0.0:PORT for every valid port
\* (':8080' to 0.0.0.0:8080), and a bind value not starting with ':'
\* resolves to the address it spells out.
C15_BindShorthand ==
    bPc \in {"parsed", "rejected"} =>
        /\ \A p \in PortStrings :
              (bBind = <<":">> \o p /\ ValidPort(p)) =>
                  /\ bPc = "parsed"
                  /\ bAddr = Some([ip |-> <<0, 0, 0, 0>>, port |-> DecimalValue(p)])
        /\ bBind = <<":">> \o S_8080 =>
              bAddr = Some([ip |-> <<0, 0, 0, 0>>, port |-> 8080])
        /\ \A a \in SpelledAddresses : \A p \in PortStrings :
              (bBind = a[1] \o <<":">> \o p /\ ValidPort(p)) =>
                  /\ bPc = "parsed"
                  /\ bAddr = Some([ip |-> a[2], port |-> DecimalValue(p)])

\* the shorthand with the largest port resolved to all interfaces
C15_Witness ==
    /\ bPc = "parsed"
    /\ bBind = <<":">> \o S_65535
    /\ bAddr = Some([ip |-> <<0, 0, 0, 0>>, port |-> 65535])

----------------------------------------------------------------------------
(* Startup specification: handle_run of the CLI constructs the proxy from  *)
(* a configuration and, when that succeeds, runs it; the listener tasks    *)
(* then bind their sockets.                                                *)

\* listeners per configuration
MaxStartListeners == 2

P_cert == <<"c","e","r","t">>

P_key == <<"k","e","y">>

P_none == <<"n","o","n","e">>

P_bad == <<"b","a","d">>

P_empty == <<"e","m","p","t","y">>

P_junk == <<"j","u","n","k">>

P_blank == <<" ">>

Section(tag, der) == [tag |-> tag, der |-> der]

\* the files on disk: a certificate chain; a PKCS8 key after a section of
\* another kind; no file; a file whose PEM does not decode; a file without
\* sections; a file whose CERTIFICATE and PRIVATE KEY sections hold bytes
\* that are neither
FileSystem ==
    (P_cert  :> Some(<<Section("CERTIFICATE", "cert"), Section("CERTIFICATE", "cert")>>))
    @@ (P_key   :> Some(<<Section("EC PARAMETERS", "other"), Section("PRIVATE KEY", "key")>>))
    @@ (P_none  :> None)
    @@ (P_bad   :> Some(<<Section("malformed", "other")>>))
    @@ (P_empty :> Some(<<>>))
    @@ (P_junk  :> Some(<<Section("CERTIFICATE", "other"), Section("PRIVATE KEY", "other")>>))
    @@ (P_blank :> None)

Paths == DOMAIN FileSystem

\* TLS material: none; every certificate path with the good key; the good
\* certificate with every key path
TlsPool ==
    {None}
    \cup {Some([cert |-> c, key |-> P_key]) : c \in Paths}
    \cup {Some([cert |-> P_cert, key |-> k]) : k \in Paths}

StartupBinds == {<<":">> \o S_8080, S_localhost \o <<":">> \o S_8080}

ListenerNames == << <<"l","1">>, <<"l","2">>, <<"l","3">> >>

\* the listener lists of 1..n listeners, named by position
StartupListeners(n) ==
    UNION {{[i \in 1..k |-> [name |-> ListenerNames[i], bind |-> d[i].bind,
                              tls |-> d[i].tls]] :
               d \in [1..k -> [bind : StartupBinds, tls : TlsPool]]} : k \in 1..n}

StartupRoutes == <<Route_api, Route_get>>

StartupConfig == [listeners |-> sListeners, routes |-> StartupRoutes]

StartupInit ==
    /\ sPc = "config"
    /\ sListeners \in StartupListeners(MaxStartListeners)
    /\ sProxy = None
    /\ sBound = {}
    /\ HostIdle
    /\ RouterIdle
    /\ ForwardIdle
    /\ ProxyIdle
    /\ TimeoutIdle
    /\ BindIdle
    /\ RequestIdle

\* handle_run: Proxy::new(config)? returns the proxy or ends the process
\* with the error
StartupNew ==
    /\ sPc = "config"
    /\ \E made \in {Proxy_new(FileSystem, StartupConfig)} :
          /\ sProxy' = IF made.ok THEN Some(made.val) ELSE None
          /\ sPc' = IF made.ok THEN "constructed" ELSE "failed"
    /\ UNCHANGED <<sListeners, sBound, startupRest>>

\* handle_run: proxy.run(), which spawns one task per listener of the proxy
StartupRun ==
    /\ sPc = "constructed"
    /\ sPc' = "running"
    /\ UNCHANGED <<sListeners, sProxy, sBound, startupRest>>

\* serve_listener of the proxy's listener l: TcpListener::bind succeeds
StartupBind(l) ==
    /\ sPc = "running"
    /\ l \in DOMAIN sProxy.val.listeners
    /\ sProxy.val.listeners[l].name \notin sBound
    /\ sBound' = sBound \cup {sProxy.val.listeners[l].name}
    /\ UNCHANGED <<sPc, sListeners, sProxy, startupRest>>

StartupNext ==
    \/ StartupNew
    \/ StartupRun
    \/ \E l \in 1..MaxStartListeners : StartupBind(l)

SpecStartup == StartupInit /\ [][StartupNext]_vars

----------------------------------------------------------------------------
(* C16 *)

\* the file is a PEM file of one or more certificates
IsCertificateFile(path) ==
    /\ FileSystem[path].some
    /\ FileSystem[path].val # <<>>
    /\ \A i \in 1..Len(FileSystem[path].val) :
          FileSystem[path].val[i] = Section("CERTIFICATE", "cert")

\* the file is a PEM file holding a usable private key
IsKeyFile(path) ==
    /\ FileSystem[path].some
    /\ \A i \in 1..Len(FileSystem[path].val) : FileSystem[path].val[i].tag # "malformed"
    /\ \E i \in 1..Len(FileSystem[path].val) :
          FileSystem[path].val[i] = Section("PRIVATE KEY", "key")

\* the listener has a malformed bind address, no TLS material, or an
\* invalid or unreadable certificate or key
BadListener(listener) ==
    \/ ~Listener_parse_bind_addr(listener.bind).some
    \/ ~listener.tls.some
    \/ /\ listener.tls.some
       /\ ~IsCertificateFile(listener.tls.val.cert) \/ ~IsKeyFile(listener.tls.val.key)

\* C16: Proxy construction is fail-fast and all-or-nothing: if any
\* configured listener has a malformed bind address, no TLS material, or an
\* invalid or unreadable certificate or key, Proxy::new returns an error
\* and no listener of that configuration is ever bound.
C16_FailFastConstruction ==
    (/\ sPc # "config"
     /\ \E i \in 1..Len(sListeners) : BadListener(sListeners[i]))
    => /\ sPc = "failed"
       /\ sProxy = None
       /\ sBound = {}

----------------------------------------------------------------------------
(* Proxy input: the configuration Proxy::new was given and the requests    *)
(* clients send.                                                           *)

NumListeners == 1

\* connections clients open, queued or accepted, over a run
MaxConns == 2

\* requests clients send over a run, on all connections together
MaxReqs == 2

\* every host, prefix "/other", an authority-only upstream target
Route_other ==
    RouteDesc("other", Some(<< <<"*">> >>), Some(S_other), None, None,
              S_target_authority, <<>>)

\* exact host, a path-only upstream target
Route_refuse ==
    RouteDesc("refuse", Some(<<S_foo_svc>>), None, None, None, S_target_path, <<>>)

\* a configuration that passes Config::validate: unique names, every route
\* with a host matcher and a target Uri::from_str accepts
ProxyConfig == <<Route_api, Route_other, Route_get, Route_post, Route_refuse>>

ProxyRouter == Router_build(ProxyConfig).val

\* 1: route api (timeout 5 s);  2: route get (no timeout);  3: no route;
\* 4: route other, whose upstream URI cannot be built;
\* 5: route refuse, whose upstream URI the client does not accept
ProxyRequests ==
    <<[method |-> "GET", uri |-> OriginUri(S_api_x, Some(S_y_1)),
       headers |-> <<Hdr("host", S_foo_svc_local)>>],
      [method |-> "GET", uri |-> OriginUri(S_slash, None),
       headers |-> <<Hdr("host", S_example_com), Hdr("connection", S_dev)>>],
      [method |-> "POST", uri |-> OriginUri(S_slash, None),
       headers |-> <<Hdr("host", S_example_com)>>],
      [method |-> "POST", uri |-> OriginUri(S_other, None),
       headers |-> <<Hdr("host", S_example_com)>>],
      [method |-> "POST", uri |-> OriginUri(S_slash, None),
       headers |-> <<Hdr("host", S_foo_svc)>>]>>

\* statuses an upstream answers with
UpstreamStatuses == {200, 404}

RECURSIVE CountRequests(_)
\* requests received so far on the connections conns
CountRequests(conns) ==
    IF conns = <<>> THEN 0
    ELSE Len(Head(conns).responses) + (IF Head(conns).cur.some THEN 1 ELSE 0)
         + CountRequests(Tail(conns))

RECURSIVE SumSeq(_)
SumSeq(q) == IF q = <<>> THEN 0 ELSE Head(q) + SumSeq(Tail(q))

----------------------------------------------------------------------------
(* Proxy specification: Proxy::run, the listener tasks, the connection     *)
(* tasks and main's return.  The runtime of #[tokio::main] is              *)
(* multi-threaded: run, every listener task and every connection task      *)
(* advance independently, one poll of a leaf future at a time.             *)

ProxyInit ==
    /\ pRun = "start"
    /\ pShutdown = FALSE
    /\ pListeners = [l \in 1..NumListeners |-> [pc |-> "unspawned", result |-> "none"]]
    /\ pBacklog = [l \in 1..NumListeners |-> 0]
    /\ pConns = <<>>
    /\ pUpstream = {}
    /\ pMetrics = [hit |-> 0, miss |-> 0, error |-> 0]
    /\ HostIdle
    /\ RouterIdle
    /\ ForwardIdle
    /\ TimeoutIdle
    /\ BindIdle
    /\ StartupIdle
    /\ RequestIdle

\* the watch sender is gone: run left through `?`
SenderDropped == pRun \in {"failed", "exited"}

\* the task of listener l has ended with result
Finished(result) == [pc |-> "finished", result |-> result]

\* run: the watch channel and one spawned task per listener
RunSpawn ==
    /\ pRun = "start"
    /\ pRun' = "waiting"
    /\ pListeners' = [l \in DOMAIN pListeners |-> [pc |-> "bind", result |-> "none"]]
    /\ UNCHANGED <<pShutdown, pBacklog, pConns, pUpstream, pMetrics, proxyRest>>

\* a run that, on the signal, also ends the connections in progress
RunCtrlC_ClosesConnections ==
    /\ pRun = "waiting"
    /\ pRun' = "draining"
    /\ pShutdown' = TRUE
    /\ pConns' = [c \in DOMAIN pConns |->
                    IF pConns[c].state = "Closed" THEN pConns[c]
                    ELSE [pConns[c] EXCEPT !.state = "Closed", !.end = "aborted"]]
    /\ UNCHANGED <<pListeners, pBacklog, pUpstream, pMetrics, proxyRest>>

\* run: ctrl_c() resolves, shutdown_tx.send(true)
RunCtrlC ==
    /\ pRun = "waiting"
    /\ pRun' = "draining"
    /\ pShutdown' = TRUE
    /\ UNCHANGED <<pListeners, pBacklog, pConns, pUpstream, pMetrics, proxyRest>>

\* a run that sets the flag although the signal handler failed
RunCtrlCErr_SetsFlag ==
    /\ pRun = "waiting"
    /\ pRun' = "failed"
    /\ pShutdown' = TRUE
    /\ pListeners' = [l \in DOMAIN pListeners |->
                        IF pListeners[l].pc \in {"bind", "parked"}
                        THEN Finished("aborted") ELSE pListeners[l]]
    /\ pBacklog' = [l \in DOMAIN pListeners |->
                        IF pListeners'[l].pc = "finished" THEN 0 ELSE pBacklog[l]]
    /\ UNCHANGED <<pConns, pUpstream, pMetrics, proxyRest>>

\* run: ctrl_c() fails, `?` returns; the JoinSet is dropped, which aborts
\* the listener tasks suspended at an await, and the sender is dropped
RunCtrlCErr ==
    /\ pRun = "waiting"
    /\ pRun' = "failed"
    /\ pListeners' = [l \in DOMAIN pListeners |->
                        IF pListeners[l].pc \in {"bind", "parked"}
                        THEN Finished("aborted") ELSE pListeners[l]]
    /\ pBacklog' = [l \in DOMAIN pListeners |->
                        IF pListeners'[l].pc = "finished" THEN 0 ELSE pBacklog[l]]
    /\ UNCHANGED <<pShutdown, pConns, pUpstream, pMetrics, proxyRest>>

\* run: join_set.join_next() yields the finished listener task l; what it
\* returned is consumed and dropped
RunJoinNext(l) ==
    /\ pRun = "draining"
    /\ pListeners[l].pc = "finished"
    /\ pListeners' = [pListeners EXCEPT ![l] = [pc |-> "joined", result |-> "none"]]
    /\ UNCHANGED <<pRun, pShutdown, pBacklog, pConns, pUpstream, pMetrics, proxyRest>>

\* run: join_next() yields None, Ok(())
RunReturn ==
    /\ pRun = "draining"
    /\ \A l \in DOMAIN pListeners : pListeners[l].pc = "joined"
    /\ pRun' = "returned"
    /\ UNCHANGED <<pShutdown, pListeners, pBacklog, pConns, pUpstream, pMetrics, proxyRest>>

\* main returns what run returned; the runtime is dropped and with it every
\* task still alive
MainReturn ==
    /\ pRun \in {"returned", "failed"}
    /\ pRun' = "exited"
    /\ pListeners' = [l \in DOMAIN pListeners |->
                        IF pListeners[l].pc \in {"finished", "joined"}
                        THEN pListeners[l] ELSE Finished("aborted")]
    /\ pBacklog' = [l \in DOMAIN pListeners |-> 0]
    /\ pConns' = [c \in DOMAIN pConns |->
                    IF pConns[c].state = "Closed" THEN pConns[c]
                    ELSE [pConns[c] EXCEPT !.state = "Closed", !.end = "aborted"]]
    /\ UNCHANGED <<pShutdown, pUpstream, pMetrics, proxyRest>>

\* serve_listener: TcpListener::bind succeeds
ListenerBindOk(l) ==
    /\ pListeners[l].pc = "bind"
    /\ pListeners' = [pListeners EXCEPT ![l].pc = "select"]
    /\ UNCHANGED <<pRun, pShutdown, pBacklog, pConns, pUpstream, pMetrics, proxyRest>>

\* a serve_listener whose bind error ends run and, with its JoinSet, the
\* other listener tasks
ListenerBindErr_Fatal(l) ==
    /\ pListeners[l].pc = "bind"
    /\ pRun' = "failed"
    /\ pListeners' = [m \in DOMAIN pListeners |->
                        IF m = l THEN Finished("bind_err")
                        ELSE IF pListeners[m].pc = "finished" THEN pListeners[m]
                        ELSE Finished("aborted")]
    /\ pBacklog' = [m \in DOMAIN pListeners |-> 0]
    /\ UNCHANGED <<pShutdown, pConns, pUpstream, pMetrics, proxyRest>>

\* serve_listener: TcpListener::bind fails, `?` returns the error
ListenerBindErr(l) ==
    /\ pListeners[l].pc = "bind"
    /\ pListeners' = [pListeners EXCEPT ![l] = Finished("bind_err")]
    /\ UNCHANGED <<pRun, pShutdown, pBacklog, pConns, pUpstream, pMetrics, proxyRest>>

\* a client completes a TCP connect to the bound socket of listener l
ClientConnect(l) ==
    /\ pListeners[l].pc \in {"select", "polled", "parked"}
    /\ Len(pConns) + SumSeq(pBacklog) < MaxConns
    /\ pBacklog' = [pBacklog EXCEPT ![l] = @ + 1]
    /\ UNCHANGED <<pRun, pShutdown, pListeners, pConns, pUpstream, pMetrics, proxyRest>>

\* select!, biased: the first branch, shutdown.changed(), is polled.  Ready
\* (a value not yet seen, or the sender gone): break, Ok(()), the socket is
\* closed.  Pending: the poll goes on to the second branch.
ListenerPollChanged(l) ==
    /\ pListeners[l].pc = "select"
    /\ IF pShutdown \/ SenderDropped
       THEN /\ pListeners' = [pListeners EXCEPT ![l] = Finished("ok")]
            /\ pBacklog' = [pBacklog EXCEPT ![l] = 0]
       ELSE /\ pListeners' = [pListeners EXCEPT ![l].pc = "polled"]
            /\ UNCHANGED pBacklog
    /\ UNCHANGED <<pRun, pShutdown, pConns, pUpstream, pMetrics, proxyRest>>

\* select!: the second branch, tcp.accept(), is polled.  Ready with a
\* queued connection: tokio::spawn of its handler, next iteration.
\* Pending: the task is suspended, or ends there when it was aborted.
ListenerPollAccept(l) ==
    /\ pListeners[l].pc = "polled"
    /\ IF pBacklog[l] > 0
       THEN /\ pBacklog' = [pBacklog EXCEPT ![l] = @ - 1]
            /\ pConns' = Append(pConns,
                                [listener |-> l, before |-> ~pShutdown,
                                 state |-> "Accepted", cur |-> None,
                                 responses |-> <<>>, end |-> "open"])
            /\ pListeners' = [pListeners EXCEPT ![l].pc = "select"]
       ELSE /\ pListeners' = [pListeners EXCEPT ![l] =
                                IF SenderDropped THEN Finished("aborted")
                                ELSE [@ EXCEPT !.pc = "parked"]]
            /\ UNCHANGED <<pBacklog, pConns>>
    /\ UNCHANGED <<pRun, pShutdown, pUpstream, pMetrics, proxyRest>>

\* select!: tcp.accept() is ready with an error, `accept?` returns it
ListenerAcceptErr(l) ==
    /\ pListeners[l].pc = "polled"
    /\ pListeners' = [pListeners EXCEPT ![l] = Finished("accept_err")]
    /\ pBacklog' = [pBacklog EXCEPT ![l] = 0]
    /\ UNCHANGED <<pRun, pShutdown, pConns, pUpstream, pMetrics, proxyRest>>

\* a select! whose suspended task only the socket wakes
ListenerWake_SocketOnly(l) ==
    /\ pListeners[l].pc = "parked"
    /\ pBacklog[l] > 0
    /\ pListeners' = [pListeners EXCEPT ![l].pc = "select"]
    /\ UNCHANGED <<pRun, pShutdown, pBacklog, pConns, pUpstream, pMetrics, proxyRest>>

\* the suspended select! is woken by the watch channel or by the socket
ListenerWake(l) ==
    /\ pListeners[l].pc = "parked"
    /\ pShutdown \/ pBacklog[l] > 0
    /\ pListeners' = [pListeners EXCEPT ![l].pc = "select"]
    /\ UNCHANGED <<pRun, pShutdown, pBacklog, pConns, pUpstream, pMetrics, proxyRest>>

\* a handler that serves requests without a handshake
ConnBegin_NoHandshake(c) ==
    /\ c \in DOMAIN pConns
    /\ pConns[c].state = "Accepted"
    /\ pConns' = [pConns EXCEPT ![c].state = "Serving"]
    /\ UNCHANGED <<pRun, pShutdown, pListeners, pBacklog, pUpstream, pMetrics, proxyRest>>

\* handle_connection starts: acceptor.accept(stream) is awaited
ConnBegin(c) ==
    /\ c \in DOMAIN pConns
    /\ pConns[c].state = "Accepted"
    /\ pConns' = [pConns EXCEPT ![c].state = "TlsHandshaking"]
    /\ UNCHANGED <<pRun, pShutdown, pListeners, pBacklog, pUpstream, pMetrics, proxyRest>>

\* the TLS handshake succeeds, serve_connection takes over
TlsOk(c) ==
    /\ c \in DOMAIN pConns
    /\ pConns[c].state = "TlsHandshaking"
    /\ pConns' = [pConns EXCEPT ![c].state = "Serving"]
    /\ UNCHANGED <<pRun, pShutdown, pListeners, pBacklog, pUpstream, pMetrics, proxyRest>>

\* a handshake failure that also ends the accept loop of the owning listener
TlsFail_StopsListener(c) ==
    /\ c \in DOMAIN pConns
    /\ pConns[c].state = "TlsHandshaking"
    /\ pConns' = [pConns EXCEPT ![c].state = "Closed", ![c].end = "tls_error"]
    /\ pListeners' = [pListeners EXCEPT ![pConns[c].listener] = Finished("accept_err")]
    /\ pBacklog' = [pBacklog EXCEPT ![pConns[c].listener] = 0]
    /\ UNCHANGED <<pRun, pShutdown, pUpstream, pMetrics, proxyRest>>

\* the TLS handshake fails, `?` ends the task
TlsFail(c) ==
    /\ c \in DOMAIN pConns
    /\ pConns[c].state = "TlsHandshaking"
    /\ pConns' = [pConns EXCEPT ![c].state = "Closed", ![c].end = "tls_error"]
    /\ UNCHANGED <<pRun, pShutdown, pListeners, pBacklog, pUpstream, pMetrics, proxyRest>>

\* a serve_connection that writes the newest response ahead of the
\* earlier ones
Served_NewestFirst(conn, req, route, outcome, handled) ==
    With(service(handled), LAMBDA answer :
        IF answer.ok
        THEN [conn EXCEPT !.cur = None,
                          !.responses = <<[req |-> req, route |-> route,
                                           outcome |-> outcome,
                                           status |-> answer.val.status,
                                           body |-> answer.val.body]>> \o @]
        ELSE [conn EXCEPT !.cur = None, !.state = "Closed", !.end = "service_error"])

\* serve_connection gets the service's result for request req of conn: a
\* response is written and the connection goes on; an error ends it
Served(conn, req, route, outcome, handled) ==
    With(service(handled), LAMBDA answer :
        IF answer.ok
        THEN [conn EXCEPT !.cur = None,
                          !.responses = Append(@, [req |-> req, route |-> route,
                                                   outcome |-> outcome,
                                                   status |-> answer.val.status,
                                                   body |-> answer.val.body])]
        ELSE [conn EXCEPT !.cur = None, !.state = "Closed", !.end = "service_error"])

\* the service is called with request r: handle_request up to its return
\* or up to the await of the upstream
RecvRequest(c, r) ==
    /\ c \in DOMAIN pConns
    /\ pConns[c].state = "Serving"
    /\ ~pConns[c].cur.some
    /\ CountRequests(pConns) < MaxReqs
    /\ \E h \in {handle_request_begin(ProxyRouter, ProxyRequests[r])} :
          /\ pMetrics' = increment_all(pMetrics, h.metrics)
          /\ IF h.kind = "done"
             THEN /\ pConns' = [pConns EXCEPT ![c] =
                                   Served(@, r, h.route, h.outcome, h.result)]
                  /\ UNCHANGED pUpstream
             ELSE /\ pConns' = [pConns EXCEPT ![c].cur =
                                   Some([req |-> r, route |-> h.route.val])]
                  /\ pUpstream' = pUpstream \cup
                                  {[conn |-> c, n |-> Len(pConns[c].responses) + 1,
                                    req |-> r]}
    /\ UNCHANGED <<pRun, pShutdown, pListeners, pBacklog, proxyRest>>

\* the awaited upstream call yields `outcome`: the rest of
\* proxy_to_upstream and of handle_request, and the service's answer
UpstreamDone(c, outcome) ==
    /\ c \in DOMAIN pConns
    /\ pConns[c].state = "Serving"
    /\ pConns[c].cur.some
    /\ \E response \in {proxy_to_upstream_end(outcome)} :
          /\ pMetrics' = increment_all(pMetrics, handle_request_respond_metrics(response))
          /\ pConns' = [pConns EXCEPT ![c] =
                          Served(@, @.cur.val.req, Some(@.cur.val.route), outcome.kind,
                                 handle_request_respond(response))]
    /\ UNCHANGED <<pRun, pShutdown, pListeners, pBacklog, pUpstream, proxyRest>>

\* the upstream answers with status
UpstreamRespond(c, status) ==
    /\ status \in UpstreamStatuses
    /\ UpstreamDone(c, [kind |-> "response", status |-> status])

\* the client call fails: connect, transport or protocol error
UpstreamFail(c) ==
    /\ c \in DOMAIN pConns
    /\ UpstreamDone(c, [kind |-> "error"])

\* the route's timeout elapses first
UpstreamTimeout(c) ==
    /\ c \in DOMAIN pConns
    /\ pConns[c].cur.some
    /\ ProxyRouter.routes[pConns[c].cur.val.route].timeout.some
    /\ UpstreamDone(c, [kind |-> "elapsed"])

\* the client closes the connection between requests
ClientClose(c) ==
    /\ c \in DOMAIN pConns
    /\ pConns[c].state = "Serving"
    /\ ~pConns[c].cur.some
    /\ pConns' = [pConns EXCEPT ![c].state = "Closed", ![c].end = "eof"]
    /\ UNCHANGED <<pRun, pShutdown, pListeners, pBacklog, pUpstream, pMetrics, proxyRest>>

\* the client sends bytes that are no HTTP/1 request: serve_connection
\* returns the hyper error
ProtocolError(c) ==
    /\ c \in DOMAIN pConns
    /\ pConns[c].state = "Serving"
    /\ ~pConns[c].cur.some
    /\ pConns' = [pConns EXCEPT ![c].state = "Closed", ![c].end = "protocol_error"]
    /\ UNCHANGED <<pRun, pShutdown, pListeners, pBacklog, pUpstream, pMetrics, proxyRest>>

ProxyNext ==
    \/ RunSpawn
    \/ RunCtrlC
    \/ RunCtrlCErr
    \/ RunReturn
    \/ MainReturn
    \/ \E l \in 1..NumListeners :
          \/ RunJoinNext(l)
          \/ ListenerBindOk(l)
          \/ ListenerBindErr(l)
          \/ ClientConnect(l)
          \/ ListenerPollChanged(l)
          \/ ListenerPollAccept(l)
          \/ ListenerAcceptErr(l)
          \/ ListenerWake(l)
    \/ \E c \in 1..MaxConns :
          \/ ConnBegin(c)
          \/ TlsOk(c)
          \/ TlsFail(c)
          \/ \E r \in DOMAIN ProxyRequests : RecvRequest(c, r)
          \/ \E status \in UpstreamStatuses : UpstreamRespond(c, status)
          \/ UpstreamFail(c)
          \/ UpstreamTimeout(c)
          \/ ClientClose(c)
          \/ ProtocolError(c)

Spec == ProxyInit /\ [][ProxyNext]_vars

----------------------------------------------------------------------------
(* Request specification: one call of handle_request, from the creation of *)
(* its span to its return, against the router of ProxyConfig.              *)

\* milliseconds start.elapsed() can show when the upstream is quick
MaxElapsedMs == 2

\* the requests of the router specification and those of the proxy
\* specification
RequestPool == RouterRequests \cup {ProxyRequests[r] : r \in DOMAIN ProxyRequests}

\* the route handle_request selected for the request in hand
SelectedRoute ==
    With(extract_host(qReq.val), LAMBDA host :
        Router_select(ProxyRouter, qReq.val, IF host.some THEN host.val ELSE <<>>))

RequestInit ==
    /\ qPc = "request"
    /\ qReq \in {Some(r) : r \in RequestPool}
    /\ qSpan = None
    /\ qResult = None
    /\ HostIdle
    /\ RouterIdle
    /\ ForwardIdle
    /\ ProxyIdle
    /\ TimeoutIdle
    /\ BindIdle
    /\ StartupIdle

\* handle_request up to its first return or to the await of the upstream
RequestBegin(duration) ==
    /\ qPc = "request"
    /\ qSpan' = Some(handle_request_begin_span(ProxyRouter, qReq.val, duration))
    /\ \E h \in {handle_request_begin(ProxyRouter, qReq.val)} :
          /\ qPc' = IF h.kind = "done" THEN "returned" ELSE "pending"
          /\ qResult' = IF h.kind = "done" THEN Some(h.result) ELSE None
    /\ UNCHANGED <<qReq, requestRest>>

\* the awaited upstream call yields `outcome` after `duration` ms: the rest
\* of handle_request
RequestUpstreamDone(outcome, duration) ==
    /\ qPc = "pending"
    /\ \E response \in {proxy_to_upstream_end(outcome)} :
          /\ qSpan' = Some(handle_request_respond_span(qSpan.val, response, duration))
          /\ qResult' = Some(handle_request_respond(response))
    /\ qPc' = "returned"
    /\ UNCHANGED <<qReq, requestRest>>

\* the upstream answers with status
RequestUpstreamRespond(status, duration) ==
    /\ status \in UpstreamStatuses
    /\ RequestUpstreamDone([kind |-> "response", status |-> status], duration)

\* the client call fails
RequestUpstreamFail(duration) ==
    /\ duration \in 0..MaxElapsedMs
    /\ RequestUpstreamDone([kind |-> "error"], duration)

\* the route's timeout elapses first
RequestUpstreamTimeout ==
    /\ qPc = "pending"
    /\ ProxyRouter.routes[SelectedRoute.val].timeout.some
    /\ RequestUpstreamDone([kind |-> "elapsed"],
                           ProxyRouter.routes[SelectedRoute.val].timeout.val * 1000)

RequestNext ==
    \/ \E duration \in 0..MaxElapsedMs :
          \/ RequestBegin(duration)
          \/ \E status \in UpstreamStatuses : RequestUpstreamRespond(status, duration)
          \/ RequestUpstreamFail(duration)
    \/ RequestUpstreamTimeout

SpecRequest == RequestInit /\ [][RequestNext]_vars

----------------------------------------------------------------------------
(* C23 *)

\* C23: every completed request emits one telemetry record in which method,
\* path, host, the resulting status code and the elapsed duration are all
\* recorded, and the route name is recorded exactly when a route matched, on
\* the 404, 502, 500 and pass-through paths alike.
C23_TelemetryRecord ==
    qPc = "returned" =>
        /\ qSpan.some
        /\ qSpan.val.method = qReq.val.method
        /\ qSpan.val.path = Uri_path(qReq.val.uri)
        /\ extract_host(qReq.val).some => qSpan.val.host = extract_host(qReq.val).val
        /\ qSpan.val.status = Some(service(qResult.val).val.status)
        /\ qSpan.val.duration_ms.some
        /\ qSpan.val.route.some <=> SelectedRoute.some
        /\ SelectedRoute.some
           => qSpan.val.route.val = ProxyRouter.routes[SelectedRoute.val].name

----------------------------------------------------------------------------
(* Listener specification: run and the tasks of several listeners, with    *)
(* the connections they accept left at their first await.                  *)

\* listeners of the proxy
MaxListeners == 2

ListenersInit ==
    /\ pRun = "start"
    /\ pShutdown = FALSE
    /\ pListeners = [l \in 1..MaxListeners |-> [pc |-> "unspawned", result |-> "none"]]
    /\ pBacklog = [l \in 1..MaxListeners |-> 0]
    /\ pConns = <<>>
    /\ pUpstream = {}
    /\ pMetrics = [hit |-> 0, miss |-> 0, error |-> 0]
    /\ HostIdle
    /\ RouterIdle
    /\ ForwardIdle
    /\ TimeoutIdle
    /\ BindIdle
    /\ StartupIdle
    /\ RequestIdle

ListenersNext ==
    \/ RunSpawn
    \/ RunCtrlC
    \/ RunCtrlCErr
    \/ RunReturn
    \/ MainReturn
    \/ \E l \in 1..MaxListeners :
          \/ RunJoinNext(l)
          \/ ListenerBindOk(l)
          \/ ListenerBindErr(l)
          \/ ClientConnect(l)
          \/ ListenerPollChanged(l)
          \/ ListenerPollAccept(l)
          \/ ListenerAcceptErr(l)
          \/ ListenerWake(l)

SpecListeners == ListenersInit /\ [][ListenersNext]_vars

\* a step of the task of listener l
ListenerStep(l) ==
    \/ ListenerBindOk(l)
    \/ ListenerBindErr(l)
    \/ ListenerPollChanged(l)
    \/ ListenerPollAccept(l)
    \/ ListenerAcceptErr(l)
    \/ ListenerWake(l)

\* a step of run after the signal
RunDrainStep == RunReturn \/ \E l \in 1..MaxListeners : RunJoinNext(l)

\* the runtime polls every task that is ready: each listener task and run
\* get their steps; clients and the signal come when they come
SpecListenersFair ==
    /\ SpecListeners
    /\ \A l \in 1..MaxListeners : WF_vars(ListenerStep(l))
    /\ WF_vars(RunDrainStep)

----------------------------------------------------------------------------
(* Claims on the listener specification *)

\* how a listener task fails by itself
ListenerFailures == {"bind_err", "accept_err"}

\* some listener task has ended with a bind error
BindFailed == \E l \in DOMAIN pListeners : pListeners[l].result = "bind_err"

\* C17: A bind error is fatal at startup: once a listener has failed to bind
\* its socket address, initialization is aborted (run is no longer waiting
\* for the shutdown signal) and no listener accepts a connection any more.
C17_BindErrorIsFatal ==
    [][BindFailed => /\ pRun \notin {"waiting", "draining"}
                     /\ Len(pConns') = Len(pConns)]_vars

\* listener l fails by itself in this step
FailsNow(l) ==
    /\ pListeners[l].pc # "finished"
    /\ pListeners'[l].pc = "finished"
    /\ pListeners'[l].result \in ListenerFailures

\* C18: The failure of one listener task (bind error or accept error) never
\* stops another listener's accept loop and never makes Proxy::run return:
\* the step in which a listener fails changes neither run nor any other
\* listener, run returns only after the shutdown signal (or its own ctrl_c
\* error), and a listener that has not failed by itself leaves its accept
\* loop only once the shutdown flag is set or run is gone.
C18_ListenerFailureIsolated ==
    /\ [][\A l \in DOMAIN pListeners :
            FailsNow(l) => /\ pRun' = pRun
                           /\ \A m \in DOMAIN pListeners \ {l} :
                                 pListeners'[m] = pListeners[m]]_vars
    /\ [](pRun = "returned" => pShutdown)
    /\ [](\A l \in DOMAIN pListeners :
            (pListeners[l].pc = "finished" /\ pListeners[l].result \notin ListenerFailures)
            => pShutdown \/ SenderDropped)

\* one listener has failed to bind while run waits for the signal, and the
\* other one has accepted a connection and is in its accept loop
C18_Witness ==
    /\ pRun = "waiting"
    /\ ~pShutdown
    /\ \E l, m \in DOMAIN pListeners :
          /\ pListeners[l].result = "bind_err"
          /\ pListeners[m].pc \in {"select", "polled", "parked"}
          /\ \E c \in DOMAIN pConns : pConns[c].listener = m

----------------------------------------------------------------------------
(* Claims on the proxy specification *)

\* the requests of the input domain for which Router::select finds no route
Unrouted ==
    {r \in DOMAIN ProxyRequests :
        ~Router_select(ProxyRouter, ProxyRequests[r],
                       IF extract_host(ProxyRequests[r]).some
                       THEN extract_host(ProxyRequests[r]).val ELSE <<>>).some}

\* the responses written on connection c, as a set of positions
Responses(c) == DOMAIN pConns[c].responses

\* C1: once the shutdown flag has been set, no listener's accept loop
\* accepts (and spawns a handler for) any further connection, in every
\* interleaving.
C1_NoAcceptAfterShutdown ==
    [][pShutdown => Len(pConns') = Len(pConns)]_vars

\* C2: Proxy::run does not return while a connection that was accepted
\* before the shutdown signal is still being served.
C2_RunWaitsForConnections ==
    pRun = "returned" =>
        \A c \in DOMAIN pConns : pConns[c].before => pConns[c].state = "Closed"

\* C4: every request for which Router::select finds no route is answered
\* with status 404 and body 'no matching route', and no request is sent to
\* any upstream for it.
C4_MissIs404 ==
    \A c \in DOMAIN pConns :
        /\ pConns[c].cur.some => pConns[c].cur.val.req \notin Unrouted
        /\ \A i \in Responses(c) :
              pConns[c].responses[i].req \in Unrouted =>
                  /\ pConns[c].responses[i].status = 404
                  /\ pConns[c].responses[i].body = "no matching route"
                  /\ \A u \in pUpstream : ~(u.conn = c /\ u.n = i)

\* a route miss has been answered, after an earlier request on the same
\* connection went upstream
C4_Witness ==
    \E c \in DOMAIN pConns :
        /\ Len(pConns[c].responses) = 2
        /\ pConns[c].responses[2].req \in Unrouted
        /\ pConns[c].responses[2].status = 404
        /\ \E u \in pUpstream : u.conn = c /\ u.n = 1

\* C5: for a request that matched a route, a forward that ends in a timeout
\* or in a transport, connect or protocol error is answered with status 502
\* and body 'upstream error', the same response for both.
C5_UpstreamFailureIs502 ==
    \A c \in DOMAIN pConns : \A i \in Responses(c) :
        pConns[c].responses[i].outcome \in {"elapsed", "error"} =>
            /\ pConns[c].responses[i].route.some
            /\ pConns[c].responses[i].status = 502
            /\ pConns[c].responses[i].body = "upstream error"

\* one connection has answered a timed-out forward and a failed forward
C5_Witness ==
    \E c \in DOMAIN pConns : \E i, j \in Responses(c) :
        /\ pConns[c].responses[i].outcome = "elapsed"
        /\ pConns[c].responses[j].outcome = "error"
        /\ pConns[c].responses[i].status = pConns[c].responses[j].status

\* how a request can fail: no route, the upstream URI cannot be built, the
\* client refuses the request, the timeout elapses, the transport fails
FailingOutcomes == {"miss", "uri", "client", "elapsed", "error"}

\* C6: a failing request never closes its connection: a route miss is
\* answered 404, an upstream failure 502, an Err of handle_request 500 with
\* body 'internal error', and the connection stays in Serving, ready for
\* the next request.
C6_FailureKeepsConnection ==
    [][/\ \A handled \in {Err("request timed out"), Err("transport")} :
             service(handled) = Ok(response_with(500, "internal error"))
       /\ \A c \in DOMAIN pConns :
             /\ pConns'[c].end # "service_error"
             /\ (/\ Len(pConns'[c].responses) = Len(pConns[c].responses) + 1
                 /\ pConns'[c].responses[Len(pConns'[c].responses)].outcome
                        \in FailingOutcomes)
                => /\ pConns'[c].state = "Serving"
                   /\ ~pConns'[c].cur.some
                   /\ pConns'[c].responses[Len(pConns'[c].responses)].status
                          = IF pConns'[c].responses[Len(pConns'[c].responses)].outcome
                                  = "miss"
                            THEN 404 ELSE 502]_vars

\* after a failed request the same connection has served a later one
C6_Witness ==
    \E c \in DOMAIN pConns :
        /\ pConns[c].state = "Serving"
        /\ Len(pConns[c].responses) = 2
        /\ pConns[c].responses[1].outcome \in FailingOutcomes \ {"miss"}
        /\ pConns[c].responses[2].outcome = "response"
        /\ pConns[c].responses[2].status = 200

\* how a connection fails by itself
ConnectionFailures == {"tls_error", "protocol_error"}

\* connection c fails by itself in this step
ConnFailsNow(c) ==
    /\ pConns[c].state # "Closed"
    /\ pConns'[c].state = "Closed"
    /\ pConns'[c].end \in ConnectionFailures

\* C19: a connection whose TLS handshake fails goes from TlsHandshaking
\* straight to Closed, Closed is final and Serving is entered only from
\* TlsHandshaking, so no request is ever handled on it; and the step in
\* which a connection fails (handshake or protocol error) changes neither
\* run, nor the listeners and their queues, nor any other connection.
C19_ConnectionFailureIsolated ==
    /\ [][\A c \in DOMAIN pConns :
            /\ pConns[c].state = "Closed" => pConns'[c] = pConns[c]
            /\ (pConns[c].state # "Serving" /\ pConns'[c].state = "Serving")
               => pConns[c].state = "TlsHandshaking"
            /\ (pConns[c].end # "tls_error" /\ pConns'[c].end = "tls_error")
               => /\ pConns[c].state = "TlsHandshaking"
                  /\ pConns'[c].state = "Closed"
            /\ ConnFailsNow(c)
               => /\ pRun' = pRun
                  /\ pListeners' = pListeners
                  /\ pBacklog' = pBacklog
                  /\ DOMAIN pConns' = DOMAIN pConns
                  /\ \A d \in DOMAIN pConns \ {c} : pConns'[d] = pConns[d]]_vars
    /\ [](\A c \in DOMAIN pConns :
            pConns[c].end = "tls_error"
            => /\ pConns[c].state = "Closed"
               /\ pConns[c].responses = <<>>
               /\ ~pConns[c].cur.some)

\* one connection was closed by a failed handshake; after it the same
\* listener accepted another one, which is serving and has been answered
C19_Witness ==
    \E c, d \in DOMAIN pConns :
        /\ c < d
        /\ pConns[c].end = "tls_error"
        /\ pConns[d].listener = pConns[c].listener
        /\ pConns[d].state = "Serving"
        /\ pConns[d].responses # <<>>
        /\ pListeners[pConns[c].listener].pc \in {"select", "polled", "parked"}

\* C20: within one connection requests are handled one at a time in
\* arrival order and answered in that order: what was written stays where
\* it is and a response is only ever added at the end; a request is taken
\* only when none is in flight, and the response added while one is in
\* flight is the response to it; the n-th request that arrived on a
\* connection and went to the upstream is in flight until its response is
\* written, and that response is the n-th, also when it timed out.
C20_ResponsesInArrivalOrder ==
    /\ [][\A c \in DOMAIN pConns :
            /\ Len(pConns'[c].responses) \in
                   {Len(pConns[c].responses), Len(pConns[c].responses) + 1}
            /\ \A i \in DOMAIN pConns[c].responses :
                   pConns'[c].responses[i] = pConns[c].responses[i]
            /\ pConns[c].cur.some
               => \/ pConns'[c].cur = pConns[c].cur /\ pConns'[c].responses = pConns[c].responses
                  \/ /\ ~pConns'[c].cur.some
                     /\ pConns'[c].state = "Serving"
                        => /\ Len(pConns'[c].responses) = Len(pConns[c].responses) + 1
                           /\ pConns'[c].responses[Len(pConns'[c].responses)].req
                                  = pConns[c].cur.val.req]_vars
    /\ [](\A u \in pUpstream :
            IF Len(pConns[u.conn].responses) >= u.n
            THEN pConns[u.conn].responses[u.n].req = u.req
            ELSE \/ pConns[u.conn].state = "Closed"
                 \/ /\ u.n = Len(pConns[u.conn].responses) + 1
                    /\ pConns[u.conn].cur.some
                    /\ pConns[u.conn].cur.val.req = u.req)

\* the first request of a connection timed out at the upstream, the second
\* one was answered by the upstream after it
C20_Witness ==
    \E c \in DOMAIN pConns :
        /\ Len(pConns[c].responses) = 2
        /\ pConns[c].responses[1].outcome = "elapsed"
        /\ pConns[c].responses[2].outcome = "response"
        /\ \E u, v \in pUpstream :
              /\ u.conn = c /\ u.n = 1 /\ u.req = pConns[c].responses[1].req
              /\ v.conn = c /\ v.n = 2 /\ v.req = pConns[c].responses[2].req

\* C21: setting the shutdown flag changes nothing for connections and
\* requests in progress: the step that sets it leaves every connection, the
\* pending upstream forwards, the listeners and their queues as they are;
\* while run is draining or has returned, a handshake in progress can still
\* complete and a pending forward can still be answered; and no connection
\* is cut off before the process itself ends.
C21_ShutdownLeavesConnections ==
    /\ [][(~pShutdown /\ pShutdown')
            => /\ pConns' = pConns
               /\ pUpstream' = pUpstream
               /\ pListeners' = pListeners
               /\ pBacklog' = pBacklog
               /\ pMetrics' = pMetrics]_vars
    /\ [](\A c \in DOMAIN pConns :
            (pShutdown /\ pRun \in {"draining", "returned"})
            => /\ pConns[c].state = "TlsHandshaking" => ENABLED TlsOk(c)
               /\ (pConns[c].state = "Serving" /\ pConns[c].cur.some)
                  => ENABLED UpstreamRespond(c, 200))
    /\ [](\A c \in DOMAIN pConns : pConns[c].end = "aborted" => pRun = "exited")

\* the flag is set while a connection accepted before it has a request
\* pending at the upstream and another one is in its handshake
C21_Witness ==
    /\ pShutdown
    /\ pRun = "draining"
    /\ \E c, d \in DOMAIN pConns :
          /\ pConns[c].before
          /\ pConns[c].state = "Serving"
          /\ pConns[c].cur.some
          /\ pConns[d].state = "TlsHandshaking"

\* C22: the shutdown flag is false from the start of Proxy::run, becomes
\* true only in the step in which run receives the interrupt, and once
\* true stays true; a run whose signal handler fails never sets it.
C22_ShutdownFlag ==
    /\ [](pRun \in {"start", "waiting", "failed"} => ~pShutdown)
    /\ [][/\ pShutdown => pShutdown'
          /\ (~pShutdown /\ pShutdown') => (pRun = "waiting" /\ pRun' = "draining")]_vars

\* the flag is still set after run has returned and the process has ended
C22_Witness ==
    /\ pShutdown
    /\ pRun = "exited"
    /\ \A l \in DOMAIN pListeners : pListeners[l].pc = "joined"

\* the increments of requests_total so far, over all outcome labels
requests_total == pMetrics.hit + pMetrics.miss + pMetrics.error

\* C24: each handled request increments requests_total exactly once, under
\* exactly one outcome label among hit, miss and error: hit + miss + error
\* equals the number of requests handled, and no counter ever decreases.
C24_OneOutcomePerRequest ==
    /\ [](requests_total = CountRequests(pConns))
    /\ [][/\ pMetrics'.hit >= pMetrics.hit
          /\ pMetrics'.miss >= pMetrics.miss
          /\ pMetrics'.error >= pMetrics.error]_vars

\* the moves of a connection: Accepted -> TlsHandshaking -> Serving ->
\* Closed, TlsHandshaking -> Closed when the handshake fails; the end of the
\* process closes whatever is open
ConnectionMoves ==
    {<<"Accepted", "TlsHandshaking">>, <<"TlsHandshaking", "Serving">>,
     <<"Serving", "Closed">>, <<"TlsHandshaking", "Closed">>}

ListenersExited == \A l \in DOMAIN pListeners : pListeners[l].pc \in {"finished", "joined"}

\* C28: after the interrupt every listener accept loop eventually exits
\* and Proxy::run eventually returns Ok, under fair scheduling of the
\* listener tasks and whether or not connections keep arriving; before the
\* interrupt run never returns Ok.
C28_ShutdownTerminates ==
    /\ pShutdown ~> ListenersExited
    /\ pShutdown ~> (pRun \in {"returned", "exited"})
    /\ [](pRun = "returned" => pShutdown)

\* run has returned Ok after joining every listener, one of which accepted
\* a connection that arrived after the interrupt
C28_Witness ==
    /\ pRun = "returned"
    /\ \A l \in DOMAIN pListeners : pListeners[l].pc = "joined"
    /\ \E c \in DOMAIN pConns : ~pConns[c].before

====
